---------------------------- MODULE Spec2Model ----------------------------
(***************************************************************************)
(* A model of the native process library of ProcessPlayground:             *)
(*   src/Library/native/pal_process.c   (spawn_process, send_signal,       *)
(*                                       the exit monitor, the signal maps)*)
(*   src/Library/native/process_spawn.c (the earlier spawn_process)        *)
(*                                                                         *)
(* The specifications share the variables below:                           *)
(*   SpecSig    the two signal tables, applied to bounded inputs           *)
(*   SpecSend   send_signal calls on one handle, the pid possibly reused   *)
(*   SpecPipe   one call of create_pipe                                    *)
(*   SpecMon    one process handle, the kernel's view of the child and the *)
(*              exit-monitor calls made on the handle, one at a time       *)
(*   SpecSpawn  one spawn_process call: the parent and the child bootstrap *)
(*              step by step (fork/clone), or the posix_spawn path         *)
(*   SpecWait   the exit monitor together with wait_for_exit of            *)
(*              process_spawn.c                                            *)
(*   SpecRace   two threads of one process inside spawn_process at once    *)
(*   SpecMonLive, SpecSpawnLive  the same with weak fairness on progress   *)
(* Every specification leaves the variables of the others at rest.         *)
(***************************************************************************)
EXTENDS Integers, Sequences, FiniteSets, TLC

VARIABLES
    build,      \* the compile-time configuration (pal_config.h) and the kernel it runs on
    pp,         \* SpecPipe: the create_pipe call: arguments, position, the two ends
    mapper,     \* SpecSig: the value being translated and the results so far
    snd,        \* SpecSend: the last send_signal call, its arguments and its outcome
    pid_reused, \* SpecSend: the kernel gave the collected child's pid to another process
    proc,       \* SpecMon: the kernel's record of the child process
    exit_pipe_held, \* SpecMon: some process still holds the write end of the exit pipe
    env,        \* SpecMon: the launcher's environment (SIGCHLD disposition, kill permission)
    call,       \* SpecMon: the monitor call in progress (function, position, locals)
    out,        \* SpecMon: the caller's out_exitCode / out_signal / out_timeout cells
    hist,       \* SpecMon: what the calls completed so far have returned
    inp,        \* SpecSpawn: the arguments of spawn_process and the launcher's situation
    par,        \* SpecSpawn: the launching thread inside spawn_process (position, locals)
    chl,        \* SpecSpawn: the child process (position in the bootstrap, kernel state)
    pfd,        \* SpecSpawn: the launcher's descriptor table
    cfd,        \* SpecSpawn: the child's descriptor table
    pipes,      \* SpecSpawn: what was written into the error pipe, the exit pipe, elsewhere
    race        \* SpecRace: two launching threads, their children, every descriptor table

sigVars == <<mapper, snd, pid_reused>>
monVars == <<proc, exit_pipe_held, env, call, out, hist>>
spawnVars == <<inp, par, chl, pfd, cfd, pipes>>
vars == <<build, pp, mapper, snd, pid_reused, proc, exit_pipe_held, env, call, out, hist,
          inp, par, chl, pfd, cfd, pipes, race>>

(***************************************************************************)
(* Bounds of the model.                                                    *)
(***************************************************************************)
MaxManagedSignal == 32   \* neutral signal inputs range over -2 .. MaxManagedSignal
MaxCalls == 3            \* monitor calls made on one handle
MaxIntr == 1             \* EINTR interruptions of one blocking system call
InterruptAfter == 25     \* ms a bounded poll / kevent has waited when it is interrupted
MaxFd == 10              \* descriptor numbers range over 0 .. MaxFd

(***************************************************************************)
(* Build configurations.  pal_config.h is generated per platform; the      *)
(* HAVE_* fields are the macros the source tests.  os chooses <signal.h>.  *)
(***************************************************************************)
LinuxBuild ==
    [os |-> "linux", HAVE_CLONE3 |-> TRUE, HAVE_PDEATHSIG |-> TRUE,
     HAVE_SYS_TGKILL |-> TRUE, HAVE_CLOSE_RANGE |-> TRUE, HAVE_KQUEUE |-> FALSE,
     HAVE_PIDFD_SEND_SIGNAL |-> TRUE, HAVE_PIPE2 |-> TRUE,
     HAVE_POSIX_SPAWN |-> FALSE, HAVE_POSIX_SPAWN_START_SUSPENDED |-> FALSE,
     HAVE_POSIX_SPAWN_FILE_ACTIONS_ADDCHDIR_NP |-> FALSE]

\* Linux headers that predate clone3: vfork/fork, waitpid, poll on the exit pipe
LinuxNoClone3Build ==
    [os |-> "linux", HAVE_CLONE3 |-> FALSE, HAVE_PDEATHSIG |-> TRUE,
     HAVE_SYS_TGKILL |-> TRUE, HAVE_CLOSE_RANGE |-> TRUE, HAVE_KQUEUE |-> FALSE,
     HAVE_PIDFD_SEND_SIGNAL |-> FALSE, HAVE_PIPE2 |-> TRUE,
     HAVE_POSIX_SPAWN |-> FALSE, HAVE_POSIX_SPAWN_START_SUSPENDED |-> FALSE,
     HAVE_POSIX_SPAWN_FILE_ACTIONS_ADDCHDIR_NP |-> FALSE]

\* FreeBSD: kqueue/kqueuex, close_range, pipe2, no prctl, no tgkill
BsdBuild ==
    [os |-> "bsd", HAVE_CLONE3 |-> FALSE, HAVE_PDEATHSIG |-> FALSE,
     HAVE_SYS_TGKILL |-> FALSE, HAVE_CLOSE_RANGE |-> TRUE, HAVE_KQUEUE |-> TRUE,
     HAVE_PIDFD_SEND_SIGNAL |-> FALSE, HAVE_PIPE2 |-> TRUE,
     HAVE_POSIX_SPAWN |-> FALSE, HAVE_POSIX_SPAWN_START_SUSPENDED |-> FALSE,
     HAVE_POSIX_SPAWN_FILE_ACTIONS_ADDCHDIR_NP |-> FALSE]

\* a POSIX system with none of the optional primitives
PlainUnixBuild ==
    [os |-> "bsd", HAVE_CLONE3 |-> FALSE, HAVE_PDEATHSIG |-> FALSE,
     HAVE_SYS_TGKILL |-> FALSE, HAVE_CLOSE_RANGE |-> FALSE, HAVE_KQUEUE |-> FALSE,
     HAVE_PIDFD_SEND_SIGNAL |-> FALSE, HAVE_PIPE2 |-> FALSE,
     HAVE_POSIX_SPAWN |-> FALSE, HAVE_POSIX_SPAWN_START_SUSPENDED |-> FALSE,
     HAVE_POSIX_SPAWN_FILE_ACTIONS_ADDCHDIR_NP |-> FALSE]

\* macOS: posix_spawn with POSIX_SPAWN_CLOEXEC_DEFAULT and addinherit_np
\* (pal_process.c:165), kqueue, no pipe2; signal numbers as on the BSDs
MacBuild ==
    [os |-> "bsd", HAVE_CLONE3 |-> FALSE, HAVE_PDEATHSIG |-> FALSE,
     HAVE_SYS_TGKILL |-> FALSE, HAVE_CLOSE_RANGE |-> FALSE, HAVE_KQUEUE |-> TRUE,
     HAVE_PIDFD_SEND_SIGNAL |-> FALSE, HAVE_PIPE2 |-> FALSE,
     HAVE_POSIX_SPAWN |-> TRUE, HAVE_POSIX_SPAWN_START_SUSPENDED |-> TRUE,
     HAVE_POSIX_SPAWN_FILE_ACTIONS_ADDCHDIR_NP |-> TRUE]

Builds == {LinuxBuild, LinuxNoClone3Build, BsdBuild, PlainUnixBuild, MacBuild}

\* pal_process.c:35-37: HAVE_PIDFD is defined exactly when HAVE_CLONE3 is
HAVE_PIDFD == build.HAVE_CLONE3

(***************************************************************************)
(* Native signal numbers (<signal.h>).  The first group has the same       *)
(* number on Linux and on the BSDs; the second group does not.             *)
(***************************************************************************)
SIGHUP == 1
SIGINT == 2
SIGQUIT == 3
SIGABRT == 6
SIGKILL == 9
SIGSEGV == 11
SIGPIPE == 13
SIGALRM == 14
SIGTERM == 15
SIGUSR1 == IF build.os = "linux" THEN 10 ELSE 30
SIGUSR2 == IF build.os = "linux" THEN 12 ELSE 31
SIGCHLD == IF build.os = "linux" THEN 17 ELSE 20
SIGCONT == IF build.os = "linux" THEN 18 ELSE 19
SIGSTOP == IF build.os = "linux" THEN 19 ELSE 17
SIGTSTP == IF build.os = "linux" THEN 20 ELSE 18

\* the signals of the two tables of pal_process.c
TableSignals ==
    {SIGHUP, SIGINT, SIGQUIT, SIGABRT, SIGKILL, SIGUSR1, SIGUSR2, SIGPIPE,
     SIGALRM, SIGTERM, SIGCHLD, SIGCONT, SIGSTOP, SIGTSTP}

\* a table that turns every value it does not hold into SIGTERM
map_managed_signal_to_native_default(managed_signal) ==
    CASE managed_signal = 1 -> SIGHUP
      [] managed_signal = 2 -> SIGINT
      [] managed_signal = 3 -> SIGQUIT
      [] managed_signal = 6 -> SIGABRT
      [] managed_signal = 9 -> SIGKILL
      [] managed_signal = 10 -> SIGUSR1
      [] managed_signal = 12 -> SIGUSR2
      [] managed_signal = 13 -> SIGPIPE
      [] managed_signal = 14 -> SIGALRM
      [] managed_signal = 17 -> SIGCHLD
      [] managed_signal = 18 -> SIGCONT
      [] managed_signal = 19 -> SIGSTOP
      [] managed_signal = 20 -> SIGTSTP
      [] OTHER -> SIGTERM

(***************************************************************************)
(* pal_process.c:679-698  map_managed_signal_to_native                     *)
(***************************************************************************)
map_managed_signal_to_native(managed_signal) ==
    CASE managed_signal = 1 -> SIGHUP
      [] managed_signal = 2 -> SIGINT
      [] managed_signal = 3 -> SIGQUIT
      [] managed_signal = 6 -> SIGABRT
      [] managed_signal = 9 -> SIGKILL
      [] managed_signal = 10 -> SIGUSR1
      [] managed_signal = 12 -> SIGUSR2
      [] managed_signal = 13 -> SIGPIPE
      [] managed_signal = 14 -> SIGALRM
      [] managed_signal = 15 -> SIGTERM
      [] managed_signal = 17 -> SIGCHLD
      [] managed_signal = 18 -> SIGCONT
      [] managed_signal = 19 -> SIGSTOP
      [] managed_signal = 20 -> SIGTSTP
      [] OTHER -> -1

\* a table whose SIGUSR1 and SIGUSR2 rows were exchanged
map_native_signal_to_managed_swapped(native_signal) ==
    CASE native_signal = SIGHUP -> 1
      [] native_signal = SIGINT -> 2
      [] native_signal = SIGQUIT -> 3
      [] native_signal = SIGABRT -> 6
      [] native_signal = SIGKILL -> 9
      [] native_signal = SIGUSR1 -> 12
      [] native_signal = SIGUSR2 -> 10
      [] native_signal = SIGPIPE -> 13
      [] native_signal = SIGALRM -> 14
      [] native_signal = SIGTERM -> 15
      [] native_signal = SIGCHLD -> 17
      [] native_signal = SIGCONT -> 18
      [] native_signal = SIGSTOP -> 19
      [] native_signal = SIGTSTP -> 20
      [] OTHER -> -1

(***************************************************************************)
(* pal_process.c:700-718  map_native_signal_to_managed                     *)
(***************************************************************************)
map_native_signal_to_managed(native_signal) ==
    CASE native_signal = SIGHUP -> 1
      [] native_signal = SIGINT -> 2
      [] native_signal = SIGQUIT -> 3
      [] native_signal = SIGABRT -> 6
      [] native_signal = SIGKILL -> 9
      [] native_signal = SIGUSR1 -> 10
      [] native_signal = SIGUSR2 -> 12
      [] native_signal = SIGPIPE -> 13
      [] native_signal = SIGALRM -> 14
      [] native_signal = SIGTERM -> 15
      [] native_signal = SIGCHLD -> 17
      [] native_signal = SIGCONT -> 18
      [] native_signal = SIGSTOP -> 19
      [] native_signal = SIGTSTP -> 20
      [] OTHER -> -1

(***************************************************************************)
(* Rest values: what a specification gives the variables it does not use.  *)
(***************************************************************************)
MapperIdle == mapper = [pc |-> "idle", x |-> 0, native |-> 0, managed |-> 0, native2 |-> 0]

IdleSend ==
    [pc |-> "idle", impl |-> "none", pidfd |-> -1, managed_signal |-> 0, n |-> 0,
     via |-> "none", native |-> 0, ret |-> 0, errno |-> "none", to |-> "none"]

SendIdle == snd = IdleSend /\ pid_reused = FALSE

SigIdle == MapperIdle /\ SendIdle

IdleCall ==
    [fn |-> "none", pc |-> "idle", timeout_ms |-> 0, intr |-> 0, ret |-> 0,
     timed_out |-> FALSE, kill |-> "none", after_reap |-> FALSE, errno |-> "none",
     now |-> 0, deadline |-> 0]

\* the caller's cells before a call: nothing written yet
FreshOut ==
    [written |-> FALSE, exitCode |-> 0, signal |-> 0,
     timeout_written |-> FALSE, timeout |-> 0]

NoHistory == [n |-> 0, reaps |-> 0, fn |-> "none", exitCode |-> 0, signal |-> 0]

MonRest ==
    /\ proc = [state |-> "none", how |-> "none", val |-> 0]
    /\ exit_pipe_held = FALSE
    /\ call = IdleCall
    /\ out = FreshOut
    /\ hist = NoHistory

MonIdle ==
    /\ MonRest
    /\ env = [sigchld_ignored |-> FALSE, kill_denied |-> FALSE]

\* one end of the pipe of create_pipe: the descriptor and its flags
NoEnd == [open |-> FALSE, cloexec |-> FALSE, nonblock |-> FALSE]

IdlePipeCall ==
    [pc |-> "idle", async_read |-> 0, async_write |-> 0, rd |-> NoEnd, wr |-> NoEnd,
     ret |-> 0, errno |-> "none", failed_call |-> "none", call_errno |-> "none"]

PipeIdle == pp = IdlePipeCall

FdRange == 0 .. MaxFd

ClosedFd == [obj |-> "", cloexec |-> FALSE]

\* the signals whose disposition is followed; a disposition is "SIG_DFL",
\* "SIG_IGN" or "handler"
DispositionSignals == {SIGINT, SIGPIPE, SIGKILL}

NoHandlers == [sig \in DispositionSignals |-> "SIG_DFL"]

IdleInput ==
    [impl |-> "none", kill_on_parent_death |-> FALSE, create_suspended |-> FALSE,
     create_new_process_group |-> FALSE, path_exists |-> TRUE, working_dir |-> "NULL",
     stdin_fd |-> 0, stdout_fd |-> 1, stderr_fd |-> 2, inherited_handles |-> {},
     launcher_pid |-> 2, dispositions |-> NoHandlers, null_out |-> {}]

IdleParent ==
    [pc |-> "idle", wait_pipe |-> <<-1, -1>>, exit_pipe |-> <<-1, -1>>, pidfd |-> -1,
     bytes_read |-> 0, child_errno |-> "none", errno |-> "none", ret |-> 0,
     intr |-> 0, mask |-> "old", out_written |-> FALSE, reap |-> "none",
     bad_close |-> FALSE, handed |-> {}]

NoChild ==
    [state |-> "none", pc |-> "none", execed |-> FALSE, failed |-> "none",
     exit_code |-> 0, pdeathsig |-> FALSE, own_group |-> FALSE, mask |-> "none",
     sig |-> NoHandlers]

NoWrites == [wait |-> "none", exit |-> "none", stray |-> "none"]

SpawnIdle ==
    /\ inp = IdleInput
    /\ par = IdleParent
    /\ chl = NoChild
    /\ pfd = [f \in FdRange |-> ClosedFd]
    /\ cfd = [f \in FdRange |-> ClosedFd]
    /\ pipes = NoWrites

\* the two concurrent launches of SpecRace
Launches == {"A", "B"}

IdleThread ==
    [pc |-> "idle", create_suspended |-> FALSE, wait_pipe |-> <<-1, -1>>,
     exit_pipe |-> <<-1, -1>>]

NoRaceChild == [state |-> "none", tbl |-> [f \in FdRange |-> ClosedFd]]

RaceIdle ==
    race = [tbl |-> [f \in FdRange |-> ClosedFd],
            th |-> [l \in Launches |-> IdleThread],
            ch |-> [l \in Launches |-> NoRaceChild]]

(***************************************************************************)
(* The kernel's side of the exit monitor.                                  *)
(*   proc.state  "running"  the child runs (before or after execve)        *)
(*               "stopped"  the child stopped itself before execve         *)
(*               "zombie"   terminated, status not yet collected           *)
(*               "reaped"   the process no longer exists                   *)
(*   proc.how    "exited" | "killed" | "dumped", proc.val the code/signal  *)
(* env.sigchld_ignored: the launcher runs with SIGCHLD set to SIG_IGN, so  *)
(* the kernel discards a terminated child at once and no wait finds it.    *)
(* env.kill_denied: the child changed credentials; signalling it is EPERM. *)
(***************************************************************************)
ExitCodes == {0, 3, 255}

\* signals that end the child from outside the library; SIGSEGV dumps core
DeathSignals == {SIGKILL, SIGTERM, SIGSEGV, SIGUSR1}

CoreSignals == {SIGSEGV, SIGQUIT, SIGABRT}

Terminated(how, val) ==
    [state |-> IF env.sigchld_ignored THEN "reaped" ELSE "zombie",
     how |-> how, val |-> val]

Alive(p) == p.state \in {"running", "stopped"}

Gone(p) == p.state \in {"zombie", "reaped"}

\* the exit pipe reads EOF once no process holds its write end
ExitPipeEOF == ~exit_pipe_held \/ Gone(proc)

\* <sys/wait.h>: the int that waitpid stores for a terminated child
EncodeStatus(p) ==
    CASE p.how = "exited" -> (p.val % 256) * 256
      [] p.how = "killed" -> p.val
      [] p.how = "dumped" -> p.val + 128
      [] OTHER -> 0

WIFEXITED(status) == status % 128 = 0
WEXITSTATUS(status) == (status \div 256) % 256
WIFSIGNALED(status) == (status % 128) \notin {0, 127}
WTERMSIG(status) == status % 128

\* a wait call that leaves the zombie in place (WNOWAIT)
CollectedNoWait(p) == p

\* what a successful waitid(WEXITED) / waitpid does to the child it reports:
\* the zombie is collected (pal_process.c:783, 791, 807, 814)
Collected(p) == [p EXCEPT !.state = "reaped"]

\* The answer of waitid(P_PIDFD, pidfd, &info, WEXITED [| WNOHANG]) or of
\* waitpid(pid, &status, 0 | WNOHANG) when it returns.  info is zeroed by the
\* caller (memset); status is whatever the kernel stored, 0 when it stored
\* nothing.  errno is ECHILD when the child does not exist.
WaitAnswer(p) ==
    CASE p.state = "zombie" ->
             [ret |-> IF HAVE_PIDFD THEN 0 ELSE 1, si_pid |-> 1,
              si_code |-> CASE p.how = "exited" -> "CLD_EXITED"
                            [] p.how = "killed" -> "CLD_KILLED"
                            [] OTHER -> "CLD_DUMPED",
              si_status |-> IF p.how = "exited" THEN p.val % 256 ELSE p.val,
              status |-> EncodeStatus(p)]
      [] p.state = "reaped" ->
             [ret |-> -1, si_pid |-> 0, si_code |-> "NONE", si_status |-> 0, status |-> 0]
      [] OTHER ->
             [ret |-> 0, si_pid |-> 0, si_code |-> "NONE", si_status |-> 0, status |-> 0]

\* the shell convention dropped: the bare signal number as exit code
map_status_no_offset(w) ==
    IF HAVE_PIDFD
    THEN CASE w.si_code \in {"CLD_KILLED", "CLD_DUMPED"} ->
                  [ret |-> 0, exitCode |-> w.si_status,
                   signal |-> map_native_signal_to_managed(w.si_status)]
           [] w.si_code = "CLD_EXITED" ->
                  [ret |-> 0, exitCode |-> w.si_status, signal |-> 0]
           [] OTHER -> [ret |-> -1, exitCode |-> 0, signal |-> 0]
    ELSE IF WIFEXITED(w.status)
         THEN [ret |-> 0, exitCode |-> WEXITSTATUS(w.status), signal |-> 0]
         ELSE IF WIFSIGNALED(w.status)
              THEN [ret |-> 0, exitCode |-> WTERMSIG(w.status),
                    signal |-> map_native_signal_to_managed(WTERMSIG(w.status))]
              ELSE [ret |-> -1, exitCode |-> 0, signal |-> 0]

(***************************************************************************)
(* pal_process.c:741-773  map_status, both variants                        *)
(***************************************************************************)
map_status(w) ==
    IF HAVE_PIDFD
    THEN CASE w.si_code \in {"CLD_KILLED", "CLD_DUMPED"} ->
                  [ret |-> 0, exitCode |-> 128 + w.si_status,
                   signal |-> map_native_signal_to_managed(w.si_status)]
           [] w.si_code = "CLD_EXITED" ->
                  [ret |-> 0, exitCode |-> w.si_status, signal |-> 0]
           [] OTHER -> [ret |-> -1, exitCode |-> 0, signal |-> 0]
    ELSE IF WIFEXITED(w.status)
         THEN [ret |-> 0, exitCode |-> WEXITSTATUS(w.status), signal |-> 0]
         ELSE IF WIFSIGNALED(w.status)
              THEN [ret |-> 0, exitCode |-> 128 + WTERMSIG(w.status),
                    signal |-> map_native_signal_to_managed(WTERMSIG(w.status))]
              ELSE [ret |-> -1, exitCode |-> 0, signal |-> 0]

Failed == [ret |-> -1, exitCode |-> 0, signal |-> 0]

(***************************************************************************)
(* SpecSig: the signal mapper on bounded inputs.                           *)
(*   ToNative       to_native(x)                                           *)
(*   ToManaged      to_neutral(to_native(x))                               *)
(*   ToNativeAgain  to_native(to_neutral(to_native(x)))                    *)
(***************************************************************************)
ManagedInputs == (0 - 2) .. MaxManagedSignal

SigInit ==
    /\ build \in Builds
    /\ \E x \in ManagedInputs :
           mapper = [pc |-> "start", x |-> x, native |-> 0, managed |-> 0, native2 |-> 0]
    /\ SendIdle
    /\ PipeIdle
    /\ RaceIdle
    /\ MonIdle
    /\ SpawnIdle

\* send_signal's first statement (pal_process.c:722): an input the table
\* does not hold is rejected at once
ToNative ==
    /\ mapper.pc = "start"
    /\ LET n == map_managed_signal_to_native(mapper.x)
       IN  mapper' = [mapper EXCEPT !.native = n,
                                    !.pc = IF n = -1 THEN "rejected" ELSE "native"]
    /\ UNCHANGED <<build, race, pp, snd, pid_reused, spawnVars, monVars>>

ToManaged ==
    /\ mapper.pc = "native"
    /\ mapper' = [mapper EXCEPT !.managed = map_native_signal_to_managed(mapper.native),
                                !.pc = "managed"]
    /\ UNCHANGED <<build, race, pp, snd, pid_reused, spawnVars, monVars>>

ToNativeAgain ==
    /\ mapper.pc = "managed"
    /\ mapper' = [mapper EXCEPT !.native2 = map_managed_signal_to_native(mapper.managed),
                                !.pc = "done"]
    /\ UNCHANGED <<build, race, pp, snd, pid_reused, spawnVars, monVars>>

SigNext == ToNative \/ ToManaged \/ ToNativeAgain

SpecSig == SigInit /\ [][SigNext]_vars

(***************************************************************************)
(* C10: for every neutral signal x the table accepts,                      *)
(* to_native(to_neutral(to_native(x))) = to_native(x) and                  *)
(* to_neutral(to_native(x)) = x.                                           *)
(***************************************************************************)
SignalRoundTrip ==
    mapper.pc = "done" =>
        /\ mapper.native2 = mapper.native
        /\ mapper.managed = mapper.x

\* SIGUSR1 on a BSD numbering: neutral 10, native 30, and back
SignalRoundTripWitness ==
    /\ mapper.pc = "done"
    /\ mapper.x = 10
    /\ mapper.native = 30
    /\ mapper.managed = 10

(***************************************************************************)
(* SpecMon: the exit monitor of pal_process.c on one handle.               *)
(* The handle is what a successful spawn_process hands out: the child runs *)
(* or is stopped before execve (create_suspended); pidfd >= 0 exactly on a *)
(* HAVE_CLONE3 build; the child holds the write end of the exit pipe as    *)
(* descriptor 3 unless the bootstrap closed it (SpecSpawn).                *)
(* The caller makes its calls one at a time; the child and the kernel move *)
(* between the steps of a call.                                            *)
(***************************************************************************)
Timeouts == {0 - 1, 50}

WaitFns == {"wait_for_exit_and_reap", "try_wait_for_exit", "wait_for_exit_or_kill_on_timeout"}

MonitorFns == {"try_get_exit_code"} \cup WaitFns

\* try_wait_for_exit waits on the exit pipe only on a build with neither a
\* process descriptor nor kqueue (pal_process.c:863-870)
PollsExitPipe == ~HAVE_PIDFD /\ ~build.HAVE_KQUEUE

MonInit ==
    /\ build \in Builds
    /\ PipeIdle
    /\ RaceIdle
    /\ SigIdle
    /\ SpawnIdle
    /\ \E st \in {"running"} \cup
                 (IF build.HAVE_SYS_TGKILL \/ build.HAVE_POSIX_SPAWN_START_SUSPENDED
                  THEN {"stopped"} ELSE {}) :
           proc = [state |-> st, how |-> "none", val |-> 0]
    /\ exit_pipe_held \in (IF PollsExitPipe THEN BOOLEAN ELSE {TRUE})
    /\ env \in [sigchld_ignored : BOOLEAN, kill_denied : BOOLEAN]
    /\ call = IdleCall
    /\ out = FreshOut
    /\ hist = NoHistory

\* ---- the child and the kernel ----

\* the program calls exit(c) or returns c from main
ProcExit ==
    /\ proc.state = "running"
    /\ \E c \in ExitCodes : proc' = Terminated("exited", c)
    /\ UNCHANGED <<build, race, pp, spawnVars, sigVars, exit_pipe_held, env, call, out, hist>>

\* a signal from elsewhere ends the child; a stopped child dies only of SIGKILL
ProcSignalled ==
    /\ Alive(proc)
    /\ \E s \in DeathSignals :
           /\ proc.state = "stopped" => s = SIGKILL
           /\ proc' = Terminated(IF s \in CoreSignals THEN "dumped" ELSE "killed", s)
    /\ UNCHANGED <<build, race, pp, spawnVars, sigVars, exit_pipe_held, env, call, out, hist>>

\* the owner of the handle resumes a suspended child with SIGCONT
ProcResumed ==
    /\ proc.state = "stopped"
    /\ proc' = [proc EXCEPT !.state = "running"]
    /\ UNCHANGED <<build, race, pp, spawnVars, sigVars, exit_pipe_held, env, call, out, hist>>

\* ---- the calls ----

FirstPc(fn) ==
    CASE fn = "try_get_exit_code" -> "nohang"
      [] fn = "wait_for_exit_and_reap" -> "reap"
      [] OTHER -> IF build.HAVE_KQUEUE THEN "kqueue" ELSE "poll"

\* the caller enters one of the four functions with fresh out cells
StartCall ==
    /\ call.pc \in {"idle", "done"}
    /\ hist.n < MaxCalls
    /\ \E fn \in MonitorFns :
         \E t \in (IF fn \in {"try_wait_for_exit", "wait_for_exit_or_kill_on_timeout"}
                   THEN Timeouts ELSE {0}) :
           call' = [IdleCall EXCEPT !.fn = fn, !.pc = FirstPc(fn), !.timeout_ms = t,
                                    !.after_reap = (hist.reaps > 0),
                                    !.deadline = IF t >= 0 THEN t ELSE 0]
    /\ out' = FreshOut
    /\ UNCHANGED <<build, race, pp, spawnVars, sigVars, proc, exit_pipe_held, env, hist>>

\* map_status writes the two cells only when it returns 0
WriteStatus(o, m) ==
    IF m.ret = 0
    THEN [o EXCEPT !.written = TRUE, !.exitCode = m.exitCode, !.signal = m.signal]
    ELSE o

\* the function the caller entered returns r; o is the state of its cells
Return(r, o) ==
    /\ call' = [call EXCEPT !.pc = "done", !.ret = r]
    /\ out' = o
    /\ hist' = IF r = 0 /\ hist.reaps = 0
               THEN [n |-> hist.n + 1, reaps |-> 1, fn |-> call.fn,
                     exitCode |-> o.exitCode, signal |-> o.signal]
               ELSE [hist EXCEPT !.n = hist.n + 1,
                                 !.reaps = hist.reaps + (IF r = 0 THEN 1 ELSE 0)]

\* the function returns -1 with errno e set by a failed system call of its own
ReturnError(e, o) ==
    /\ call' = [call EXCEPT !.pc = "done", !.ret = -1, !.errno = e]
    /\ out' = o
    /\ hist' = [hist EXCEPT !.n = hist.n + 1]

\* try_get_exit_code that maps the status without looking at the wait's result
try_get_exit_code_result_unchecked(w) == map_status(w)

\* try_get_exit_code trusting a wait that found nothing: ret >= 0 for ret > 0
try_get_exit_code_result_ge(w) ==
    IF w.ret >= 0 THEN map_status(w) ELSE Failed

\* pal_process.c:785-798: the status is mapped only when the wait reported a child
try_get_exit_code_result(w) ==
    IF HAVE_PIDFD
    THEN IF w.ret = 0 /\ w.si_pid # 0 THEN map_status(w) ELSE Failed
    ELSE IF w.ret > 0 THEN map_status(w) ELSE Failed

\* pal_process.c:809-820
wait_for_exit_and_reap_result(w) ==
    IF w.ret # -1 THEN map_status(w) ELSE Failed

\* pal_process.c:777-799  try_get_exit_code: one waitid/waitpid with WNOHANG
TryGetExitCode ==
    /\ call.pc = "nohang"
    /\ LET w == WaitAnswer(proc)
           m == try_get_exit_code_result(w)
       IN  /\ proc' = IF proc.state = "zombie" THEN Collected(proc) ELSE proc
           /\ Return(m.ret, WriteStatus(out, m))
    /\ UNCHANGED <<build, race, pp, spawnVars, sigVars, exit_pipe_held, env>>

\* pal_process.c:802-821  wait_for_exit_and_reap: the blocking waitid/waitpid
\* returns once the child has terminated (or does not exist: ECHILD);
\* try_wait_for_exit and wait_for_exit_or_kill_on_timeout end in this call
\* and return its value (pal_process.c:887, 915)
WaitForExitAndReap ==
    /\ call.pc = "reap"
    /\ Gone(proc)
    /\ LET w == WaitAnswer(proc)
           m == wait_for_exit_and_reap_result(w)
       IN  /\ proc' = IF proc.state = "zombie" THEN Collected(proc) ELSE proc
           /\ Return(m.ret, WriteStatus(out, m))
    /\ UNCHANGED <<build, race, pp, spawnVars, sigVars, exit_pipe_held, env>>

\* what poll / kevent waits for
WaitReady == IF PollsExitPipe THEN ExitPipeEOF ELSE Gone(proc)

\* a signal handler runs in the calling thread while waitid, waitpid, poll or
\* kevent blocks: the call fails with EINTR and the while loop issues it again
\* (pal_process.c:807, 814, 846, 875).  call.now is the time in ms since the
\* function was entered, call.deadline the time at which the poll / kevent
\* in progress returns 0: the loops of 846 and 875 pass the same timeout
\* again, so the new call expires timeout_ms after the interruption.
Interrupted ==
    /\ \/ call.pc = "reap" /\ Alive(proc)
       \/ call.pc \in {"poll", "kevent"} /\ ~WaitReady
    /\ call.intr < MaxIntr
    /\ IF call.pc \in {"poll", "kevent"} /\ call.timeout_ms >= 0
       THEN /\ call.now + InterruptAfter < call.deadline
            /\ call' = [call EXCEPT !.intr = call.intr + 1,
                                    !.now = call.now + InterruptAfter,
                                    !.deadline = call.now + InterruptAfter
                                                     + call.timeout_ms]
       ELSE call' = [call EXCEPT !.intr = call.intr + 1]
    /\ UNCHANGED <<build, race, pp, spawnVars, sigVars, proc, exit_pipe_held, env, out, hist>>

\* try_wait_for_exit returns 1: to the caller, or into
\* wait_for_exit_or_kill_on_timeout, which goes on to the kill (pal_process.c:893-898)
TimedOut ==
    IF call.fn = "wait_for_exit_or_kill_on_timeout"
    THEN /\ call' = [call EXCEPT !.pc = "kill", !.timed_out = TRUE]
         /\ UNCHANGED <<out, hist>>
    ELSE Return(1, out)

\* pal_process.c:863-887: poll reports the descriptor readable or hung up
PollReady ==
    /\ call.pc = "poll"
    /\ WaitReady
    /\ call' = [call EXCEPT !.pc = "reap"]
    /\ UNCHANGED <<build, race, pp, spawnVars, sigVars, proc, exit_pipe_held, env, out, hist>>

\* pal_process.c:875-884: poll returns 0 after timeout_ms
PollTimeout ==
    /\ call.pc = "poll"
    /\ ~WaitReady
    /\ call.timeout_ms >= 0
    /\ TimedOut
    /\ UNCHANGED <<build, race, pp, spawnVars, sigVars, proc, exit_pipe_held, env>>

\* pal_process.c:829-832: create_kqueue_cloexec, which fails when the
\* process is out of descriptors
KqueueCreate ==
    /\ call.pc = "kqueue"
    /\ \/ /\ call' = [call EXCEPT !.pc = "kevent"]
          /\ UNCHANGED <<out, hist>>
       \/ ReturnError("EMFILE", out)
    /\ UNCHANGED <<build, race, pp, spawnVars, sigVars, proc, exit_pipe_held, env>>

\* C integer division and remainder (truncation toward zero)
CDiv(a, b) == IF a >= 0 THEN a \div b ELSE 0 - ((0 - a) \div b)
CRem(a, b) == a - b * CDiv(a, b)

\* pal_process.c:842-844
timeout_tv_sec(timeout_ms) == CDiv(timeout_ms, 1000)
timeout_tv_nsec(timeout_ms) == CRem(timeout_ms, 1000) * 1000 * 1000

\* kevent rejects a negative timespec with EINVAL
TimespecValid(timeout_ms) ==
    timeout_tv_sec(timeout_ms) >= 0 /\ timeout_tv_nsec(timeout_ms) >= 0

\* pal_process.c:846-859: kevent fails.  With ESRCH the function falls back
\* to try_get_exit_code and returns 0 if that found the status.
KeventFails ==
    /\ call.pc = "kevent"
    /\ \/ /\ ~TimespecValid(call.timeout_ms)          \* EINVAL
          /\ ReturnError("EINVAL", out)
          /\ UNCHANGED proc
       \/ /\ Gone(proc)                               \* ESRCH at registration
          /\ LET w == WaitAnswer(proc)
                 m == try_get_exit_code_result(w)
             IN  /\ proc' = IF proc.state = "zombie" THEN Collected(proc) ELSE proc
                 /\ Return(IF m.ret # -1 THEN 0 ELSE -1, WriteStatus(out, m))
    /\ UNCHANGED <<build, race, pp, spawnVars, sigVars, exit_pipe_held, env>>

\* kevent returns 1: NOTE_EXIT, or the registration error placed in the
\* event list; either way the function goes on to wait_for_exit_and_reap
KeventReady ==
    /\ call.pc = "kevent"
    /\ Gone(proc)
    /\ call' = [call EXCEPT !.pc = "reap"]
    /\ UNCHANGED <<build, race, pp, spawnVars, sigVars, proc, exit_pipe_held, env, out, hist>>

\* kevent returns 0 after the timeout
KeventTimeout ==
    /\ call.pc = "kevent"
    /\ Alive(proc)
    /\ TimespecValid(call.timeout_ms)
    /\ TimedOut
    /\ UNCHANGED <<build, race, pp, spawnVars, sigVars, proc, exit_pipe_held, env>>

\* send_signal that always signals by pid
send_signal_by_pid(pidfd, managed_signal) ==
    LET native_signal == map_managed_signal_to_native(managed_signal)
    IN  IF native_signal = -1
        THEN [via |-> "none", native |-> native_signal, errno |-> "EINVAL"]
        ELSE [via |-> "kill", native |-> native_signal, errno |-> "none"]

\* pal_process.c:720-739  send_signal: the system call it chooses, or EINVAL
send_signal(pidfd, managed_signal) ==
    LET native_signal == map_managed_signal_to_native(managed_signal)
    IN  IF native_signal = -1
        THEN [via |-> "none", native |-> native_signal, errno |-> "EINVAL"]
        ELSE IF build.HAVE_PIDFD_SEND_SIGNAL /\ pidfd >= 0
             THEN [via |-> "pidfd_send_signal", native |-> native_signal, errno |-> "none"]
             ELSE [via |-> "kill", native |-> native_signal, errno |-> "none"]

\* the kernel's answer to kill / pidfd_send_signal on the child: a process
\* that was collected does not exist (ESRCH); a zombie still does
SignalAnswer(p) ==
    CASE p.state = "reaped" -> "ESRCH"
      [] env.kill_denied -> "EPERM"
      [] OTHER -> "ok"

\* the descriptor spawn_process stored in out_pidfd (pal_process.c:374, 668)
HandlePidfd == IF HAVE_PIDFD THEN 4 ELSE -1

\* pal_process.c:898-915: *out_timeout = 1, SIGKILL through send_signal, then
\* ESRCH resets *out_timeout and any other error returns -1
KillOnTimeout ==
    /\ call.pc = "kill"
    /\ LET o1 == [out EXCEPT !.timeout_written = TRUE, !.timeout = 1]
           s == send_signal(HandlePidfd, map_native_signal_to_managed(SIGKILL))
           a == IF s.errno # "none" THEN s.errno ELSE SignalAnswer(proc)
       IN  /\ proc' = IF a = "ok" /\ Alive(proc)
                      THEN Terminated("killed", s.native) ELSE proc
           /\ CASE a = "ok" ->
                     /\ call' = [call EXCEPT !.pc = "reap", !.kill = "sent"]
                     /\ out' = o1
                     /\ UNCHANGED hist
                [] a = "ESRCH" ->
                     /\ call' = [call EXCEPT !.pc = "reap", !.kill = "ESRCH"]
                     /\ out' = [o1 EXCEPT !.timeout = 0]
                     /\ UNCHANGED hist
                [] OTHER ->
                     /\ call' = [call EXCEPT !.pc = "done", !.ret = -1, !.kill = a]
                     /\ out' = o1
                     /\ hist' = [hist EXCEPT !.n = hist.n + 1]
    /\ UNCHANGED <<build, race, pp, spawnVars, sigVars, exit_pipe_held, env>>

MonNext ==
    \/ ProcExit \/ ProcSignalled \/ ProcResumed
    \/ StartCall \/ TryGetExitCode \/ WaitForExitAndReap \/ Interrupted
    \/ PollReady \/ PollTimeout
    \/ KqueueCreate \/ KeventFails \/ KeventReady \/ KeventTimeout
    \/ KillOnTimeout

SpecMon == MonInit /\ [][MonNext]_vars

\* The steps that eventually happen: the statements of the monitor call in
\* progress, and the child running on to its exit (resumed first when it was
\* started suspended).  A signal from elsewhere, an interrupting handler and
\* the caller's next call are not promised.
MonProgress ==
    \/ ProcExit \/ ProcResumed
    \/ TryGetExitCode \/ WaitForExitAndReap
    \/ PollReady \/ PollTimeout
    \/ KqueueCreate \/ KeventFails \/ KeventReady \/ KeventTimeout
    \/ KillOnTimeout

SpecMonLive == SpecMon /\ WF_vars(MonProgress)

(***************************************************************************)
(* Claims about the exit monitor (SpecMon).                                *)
(***************************************************************************)

\* C4: over any sequence of monitor calls made one at a time on one handle,
\* at most one call returns 0 with a status; that call collects the child;
\* every call begun after it returns -1 and writes no status.
ReapedAtMostOnce ==
    /\ hist.reaps <= 1
    /\ hist.reaps = 1 => proc.state = "reaped"
    /\ (call.pc = "done" /\ call.after_reap) => (call.ret = -1 /\ ~out.written)

\* C4 witness: a call made after the reaping call has returned -1
ReapedAtMostOnceWitness ==
    /\ hist.reaps = 1
    /\ call.pc = "done" /\ call.after_reap /\ call.ret = -1
    /\ call.fn \in WaitFns

\* C5 as stated: after a wait operation reaped the child, try_get_exit_code
\* returns 0 with the exit code and signal the wait returned.
StatusRetainedAfterReap ==
    (call.pc = "done" /\ call.fn = "try_get_exit_code" /\ call.after_reap
        /\ hist.fn \in WaitFns)
    => (call.ret = 0 /\ out.written
        /\ out.exitCode = hist.exitCode /\ out.signal = hist.signal)

\* C5 amended: after a wait operation reaped the child, try_get_exit_code
\* returns -1 and writes neither out_exitCode nor out_signal.
NoStatusAfterReap ==
    (call.pc = "done" /\ call.fn = "try_get_exit_code" /\ call.after_reap
        /\ hist.fn \in WaitFns)
    => (call.ret = -1 /\ ~out.written)

\* C5 witness: try_get_exit_code has returned after a wait reaped the child
NoStatusAfterReapWitness ==
    /\ call.pc = "done" /\ call.fn = "try_get_exit_code" /\ call.after_reap
    /\ hist.fn \in WaitFns /\ hist.reaps = 1
    /\ call.ret = -1

\* C6: a try_get_exit_code made while the child runs (or is stopped before
\* execve) returns in its one step with -1, writes nothing and leaves the
\* child as it was; and no monitor call has returned 0 for a live child.
RunningIsNeverReported ==
    [][/\ (call.pc = "nohang" /\ Alive(proc) /\ call'.pc = "done")
            => (call'.ret = -1 /\ ~out'.written /\ proc' = proc)
       /\ (call'.pc = "done" /\ call'.ret = 0) => Gone(proc')]_vars

\* C6 witness: the third try_get_exit_code in a row on a child still stopped
RunningIsNeverReportedWitness ==
    /\ call.pc = "done" /\ call.fn = "try_get_exit_code" /\ call.ret = -1
    /\ hist.n = 3 /\ hist.reaps = 0 /\ ~call.after_reap
    /\ proc.state = "stopped"

\* C7 as stated: a bounded try_wait_for_exit on a child that has not exited
\* does not enter the unbounded reap (it returns 1 when the timeout elapses),
\* and a return of 1 comes with no signal sent and no status written.
TimedWaitReturnsTimedOut ==
    /\ (call.fn = "try_wait_for_exit" /\ call.timeout_ms >= 0 /\ Alive(proc))
           => call.pc # "reap"
    /\ (call.fn = "try_wait_for_exit" /\ call.pc = "done" /\ call.ret = 1)
           => (call.kill = "none" /\ ~out.written /\ hist.reaps = 0)

\* C8 as stated: when the kill after the timeout reports ESRCH the call
\* still returns 0 with the final status, and any other kill error gives -1.
KillEsrchStillReturnsStatus ==
    /\ (call.fn = "wait_for_exit_or_kill_on_timeout" /\ call.pc = "done"
            /\ call.kill = "ESRCH")
           => (call.ret = 0 /\ out.written)
    /\ (call.fn = "wait_for_exit_or_kill_on_timeout" /\ call.pc = "done"
            /\ call.kill = "EPERM")
           => call.ret = -1

\* C32 as stated: wait_for_exit_or_kill_on_timeout leaves *out_timeout
\* unwritten when it returns without having timed out (the process exited in
\* time, or the wait failed), has set it to 1 when the kill after the timeout
\* succeeded, and back to 0 when the kill reported ESRCH; and whenever it
\* returns 0 with *out_timeout = 1 the status it reports is termination by
\* SIGKILL (exit code 128 + SIGKILL).
OutTimeoutOnlyOnTimeoutPath ==
    (call.fn = "wait_for_exit_or_kill_on_timeout" /\ call.pc = "done") =>
        /\ call.kill = "none" => ~out.timeout_written
        /\ call.kill = "sent" => out.timeout = 1
        /\ call.kill = "ESRCH" => out.timeout = 0
        /\ (call.ret = 0 /\ out.timeout = 1) =>
               (out.written /\ out.exitCode = 128 + SIGKILL)

\* what the kernel recorded for the child of a call that returned a status
ReportedExit == call.pc = "done" /\ call.ret = 0 /\ proc.how = "exited"
ReportedSignal == call.pc = "done" /\ call.ret = 0 /\ proc.how \in {"killed", "dumped"}

\* C9 as stated: exit by code c is reported as (c, 0); termination by any
\* native signal s is reported as exit code 128 + s with a neutral signal n
\* such that map_managed_signal_to_native(n) = s.
StatusMappingAnySignal ==
    /\ ReportedExit => (out.exitCode = proc.val /\ out.signal = 0)
    /\ ReportedSignal =>
           /\ out.exitCode = 128 + proc.val
           /\ map_managed_signal_to_native(out.signal) = proc.val

\* C9 amended: exit by code c is reported as (c, 0); termination by signal s
\* is reported as exit code 128 + s, with the neutral signal n such that
\* map_managed_signal_to_native(n) = s when s is in the table, and with
\* signal -1 when s is not in the table.
StatusMapping ==
    /\ ReportedExit => (out.exitCode = proc.val /\ out.signal = 0)
    /\ ReportedSignal =>
           /\ out.exitCode = 128 + proc.val
           /\ proc.val \in TableSignals
                 => map_managed_signal_to_native(out.signal) = proc.val
           /\ proc.val \notin TableSignals => out.signal = -1

\* C9 witness: a child that died of SIGSEGV with a core dump was reported
StatusMappingWitness ==
    /\ ReportedSignal /\ proc.how = "dumped" /\ proc.val = SIGSEGV
    /\ out.written /\ out.exitCode = 128 + SIGSEGV /\ out.signal = -1

\* a call that waits without a time limit
BlockingCall ==
    \/ call.fn = "wait_for_exit_and_reap"
    \/ call.fn = "try_wait_for_exit" /\ call.timeout_ms = 0 - 1

\* C15 as stated (for a launcher that leaves SIGCHLD at its default and is
\* not out of descriptors): on the
\* handle of a launched process that exits on its own, wait_for_exit_and_reap,
\* and try_wait_for_exit with an infinite timeout (timeout_ms = -1), begun
\* before any call collected the child, eventually returns, and returns 0 with
\* the exit code the program exited with.
BlockingWaitReturnsExitCode ==
    /\ []((BlockingCall /\ call.pc = "done" /\ ~call.after_reap
             /\ ~env.sigchld_ignored /\ call.errno # "EMFILE" /\ proc.how = "exited")
            => (call.ret = 0 /\ out.written /\ out.exitCode = proc.val))
    /\ ((BlockingCall /\ call.pc # "done") ~> (call.pc = "done"))

(***************************************************************************)
(* SpecWait: both wait implementations on one handle: the exit monitor of  *)
(* pal_process.c (the actions of SpecMon) and wait_for_exit of             *)
(* process_spawn.c:419-585, which has one branch per platform:             *)
(*   __linux__   waitid(P_PIDFD), or poll on the pidfd with a deadline     *)
(*   __APPLE__   waitpid, or kqueue / kevent with the timeout              *)
(*   otherwise   waitpid, or a waitpid(WNOHANG) loop that never times out  *)
(* wait_for_exit returns the exit code itself; call.ret holds it.          *)
(***************************************************************************)
\* process_spawn.c on Linux always has the pidfd of its clone3
WaitInit ==
    /\ MonInit
    /\ build \in Builds \ {LinuxNoClone3Build}

\* process_spawn.c:388-398 (non-Linux): the exit code of a waitpid status
get_exit_code_from_status(status) ==
    IF WIFEXITED(status) THEN WEXITSTATUS(status) ELSE 0 - 1

\* the caller enters wait_for_exit(pidfd, pid, timeout_ms);
\* process_spawn.c:425-443, 456-540: where the call first blocks, by
\* __linux__, __APPLE__ and timeout_ms
WaitForExitStart ==
    /\ call.pc \in {"idle", "done"}
    /\ hist.n < MaxCalls
    /\ \E t \in Timeouts :
         LET first == CASE build.os = "linux" ->
                               IF t = 0 - 1 THEN "wfe_waitid" ELSE "wfe_poll"
                        [] t = 0 - 1 -> "wfe_waitpid"
                        [] build = MacBuild -> "wfe_kqueue"
                        [] OTHER -> "wfe_nohang"
         IN  call' = [IdleCall EXCEPT !.fn = "wait_for_exit", !.pc = first,
                                      !.timeout_ms = t, !.after_reap = (hist.reaps > 0),
                                      !.deadline = IF t >= 0 THEN t ELSE 0]
    /\ out' = FreshOut
    /\ UNCHANGED <<build, race, pp, spawnVars, sigVars, proc, exit_pipe_held, env, hist>>

\* wait_for_exit returns r; collected: its wait collected the child
WaitForExitReturn(r, e, collected) ==
    /\ call' = [call EXCEPT !.pc = "done", !.ret = r, !.errno = e]
    /\ hist' = IF collected /\ hist.reaps = 0
               THEN [n |-> hist.n + 1, reaps |-> 1, fn |-> call.fn,
                     exitCode |-> r, signal |-> 0]
               ELSE [hist EXCEPT !.n = hist.n + 1,
                                 !.reaps = hist.reaps + (IF collected THEN 1 ELSE 0)]
    /\ UNCHANGED out

\* process_spawn.c:402-416  wait_for_exit_linux_waitid: si_status as it is,
\* -1 when waitid fails with anything but EINTR (ECHILD)
WaitForExitWaitid ==
    /\ call.pc = "wfe_waitid"
    /\ Gone(proc)
    /\ LET w == WaitAnswer(proc)
       IN  /\ proc' = IF proc.state = "zombie" THEN Collected(proc) ELSE proc
           /\ IF w.ret = 0 THEN WaitForExitReturn(w.si_status, "none", TRUE)
              ELSE WaitForExitReturn(0 - 1, "ECHILD", FALSE)
    /\ UNCHANGED <<build, race, pp, spawnVars, sigVars, exit_pipe_held, env>>

\* process_spawn.c:446-455, 506-517, 525-536: the waitpid(pid, &status, 0) loop
WaitForExitWaitpid ==
    /\ call.pc = "wfe_waitpid"
    /\ Gone(proc)
    /\ LET w == WaitAnswer(proc)
       IN  /\ proc' = IF proc.state = "zombie" THEN Collected(proc) ELSE proc
           /\ IF w.ret > 0
              THEN WaitForExitReturn(get_exit_code_from_status(w.status), "none", TRUE)
              ELSE WaitForExitReturn(0 - 1, "ECHILD", FALSE)
    /\ UNCHANGED <<build, race, pp, spawnVars, sigVars, exit_pipe_held, env>>

\* process_spawn.c:541-555: the waitpid(pid, &status, WNOHANG) loop with
\* usleep; timeout_ms is not used
WaitForExitNohang ==
    /\ call.pc = "wfe_nohang"
    /\ Gone(proc)
    /\ LET w == WaitAnswer(proc)
       IN  /\ proc' = IF proc.state = "zombie" THEN Collected(proc) ELSE proc
           /\ IF w.ret > 0
              THEN WaitForExitReturn(get_exit_code_from_status(w.status), "none", TRUE)
              ELSE WaitForExitReturn(0 - 1, "ECHILD", FALSE)
    /\ UNCHANGED <<build, race, pp, spawnVars, sigVars, exit_pipe_held, env>>

\* a signal handler runs while waitid, waitpid or poll blocks: EINTR, and
\* the loop continues (process_spawn.c:408-411, 436-439, 450-453); the poll
\* loop computes remaining_ms = end_time - now again (439-443), so the
\* deadline stays where it was
WaitForExitInterrupted ==
    /\ call.pc \in {"wfe_waitid", "wfe_waitpid", "wfe_poll"}
    /\ Alive(proc)
    /\ call.intr < MaxIntr
    /\ IF call.pc = "wfe_poll"
       THEN /\ call.now + InterruptAfter < call.deadline
            /\ call' = [call EXCEPT !.intr = call.intr + 1,
                                    !.now = call.now + InterruptAfter]
       ELSE call' = [call EXCEPT !.intr = call.intr + 1]
    /\ UNCHANGED <<build, race, pp, spawnVars, sigVars, proc, exit_pipe_held, env, out, hist>>

\* SIGKILL after the timeout; the result of the call is not looked at
\* (process_spawn.c:442, 497)
KillIgnoringResult(p) ==
    IF Alive(p) /\ ~env.kill_denied THEN Terminated("killed", SIGKILL) ELSE p

\* process_spawn.c:428-451: poll on the pidfd until the deadline; on timeout
\* pidfd_send_signal(SIGKILL); either way on to waitid
WaitForExitPoll ==
    /\ call.pc = "wfe_poll"
    /\ IF Gone(proc)
       THEN /\ call' = [call EXCEPT !.pc = "wfe_waitid"]
            /\ UNCHANGED proc
       ELSE /\ call' = [call EXCEPT !.pc = "wfe_waitid", !.timed_out = TRUE,
                                    !.kill = "sent"]
            /\ proc' = KillIgnoringResult(proc)
    /\ UNCHANGED <<build, race, pp, spawnVars, sigVars, exit_pipe_held, env, out, hist>>

\* process_spawn.c:460-473: kqueue() and fcntl(FD_CLOEXEC)
WaitForExitKqueue ==
    /\ call.pc = "wfe_kqueue"
    /\ \/ /\ call' = [call EXCEPT !.pc = "wfe_kevent"]
          /\ UNCHANGED hist
       \/ WaitForExitReturn(0 - 1, "EMFILE", FALSE)
    /\ UNCHANGED <<build, race, pp, spawnVars, sigVars, proc, exit_pipe_held, env, out>>

\* process_spawn.c:487-537: one kevent call.  ret < 0 (the process does not
\* exist: ESRCH; a handler ran: EINTR) returns -1; ret == 0 is the timeout:
\* kill(pid, SIGKILL); then the waitpid loop
WaitForExitKevent ==
    /\ call.pc = "wfe_kevent"
    /\ \/ /\ Gone(proc)
          /\ WaitForExitReturn(0 - 1, "ESRCH", FALSE)
          /\ UNCHANGED proc
       \/ /\ Alive(proc)
          /\ call.intr < MaxIntr
          /\ call' = [call EXCEPT !.pc = "done", !.ret = 0 - 1, !.errno = "EINTR",
                                  !.intr = call.intr + 1]
          /\ hist' = [hist EXCEPT !.n = hist.n + 1]
          /\ UNCHANGED <<proc, out>>
       \/ /\ Gone(proc)
          /\ call' = [call EXCEPT !.pc = "wfe_waitpid"]
          /\ UNCHANGED <<proc, hist>>
       \/ /\ Alive(proc)
          /\ call' = [call EXCEPT !.pc = "wfe_waitpid", !.timed_out = TRUE,
                                  !.kill = "sent"]
          /\ proc' = KillIgnoringResult(proc)
          /\ UNCHANGED hist
    /\ UNCHANGED <<build, race, pp, spawnVars, sigVars, exit_pipe_held, env, out>>

WaitNext ==
    \/ MonNext
    \/ WaitForExitStart \/ WaitForExitWaitid \/ WaitForExitWaitpid
    \/ WaitForExitNohang \/ WaitForExitInterrupted \/ WaitForExitPoll
    \/ WaitForExitKqueue \/ WaitForExitKevent

SpecWait == WaitInit /\ [][WaitNext]_vars

(***************************************************************************)
(* Claims about the two wait implementations (SpecWait).                   *)
(***************************************************************************)

\* C26 as stated: no operation of the exit monitor, wait_for_exit of
\* process_spawn.c on every platform branch included, returns an error to its
\* caller because a blocking call of it (waitid, waitpid, poll, kevent) was
\* interrupted by a signal.
InterruptionNeverSurfaces ==
    (call.pc = "done" /\ call.ret = 0 - 1) => call.errno # "EINTR"

\* C33 as stated: a bounded wait (timeout_ms >= 0) that timed out on a
\* process that kept running did so no later than timeout_ms after the call
\* began, however often poll / kevent was interrupted: the wait resumed
\* with the remaining time each time.  (call.deadline is the time, counted
\* from the entry of the function, at which the last poll / kevent expired.)
BoundedWaitKeepsDeadline ==
    (call.timeout_ms >= 0
        /\ (call.timed_out \/ (call.fn = "try_wait_for_exit" /\ call.pc = "done"
                                    /\ call.ret = 1)))
    => call.deadline <= call.timeout_ms

\* C29 as stated: a wait_for_exit call of process_spawn.c that collected the
\* child (after its exit with code c, its death by signal s, or the kill that
\* follows a timeout) returns the exit code the monitor of pal_process.c
\* reports for that termination (c, respectively 128 + s), and that value is
\* not its error return -1.
OneStatusPolicy ==
    (call.fn = "wait_for_exit" /\ call.pc = "done" /\ ~call.after_reap
        /\ hist.reaps = 1 /\ hist.fn = "wait_for_exit")
    => /\ call.ret = wait_for_exit_and_reap_result(
                          WaitAnswer([proc EXCEPT !.state = "zombie"])).exitCode
       /\ call.ret # 0 - 1

(***************************************************************************)
(* SpecSpawn: one call of spawn_process on the fork/clone path             *)
(* (pal_process.c:362-674; process_spawn.c:96-331 is the same sequence     *)
(* without create_suspended, process groups and inherited handles).        *)
(*                                                                         *)
(* Descriptor tables map a descriptor number to the open file it refers to *)
(* and its close-on-exec flag.  Open files:                                *)
(*   "tty_in" "tty_out" "tty_err"  the launcher's standard streams         *)
(*   "file"                        a file the caller opened                *)
(*   "other"                       a file the launcher holds for itself    *)
(*   "WR" "WW"                     read / write end of the error pipe      *)
(*   "ER" "EW"                     read / write end of the exit pipe       *)
(*   "pidfd"                       the process descriptor of the child     *)
(* Error numbers are kept by name.                                         *)
(***************************************************************************)
Impls == {"pal_process", "process_spawn"}

\* the descriptors the launcher has open when it calls spawn_process, before
\* the file it may pass: its standard streams, and in the last case two more
\* descriptors (3 and 4) it opened without O_CLOEXEC and passes to nobody
LauncherTables == {{0, 1, 2}, {1, 2}, {0, 1}, {2}, {}, {0, 1, 2, 3, 4}}

WorkingDirs == {"NULL", "ok", "missing"}

\* the caller passes its own 0/1/2, a file it opened, or a number not open
StdChoices == {"inherit", "file", "bad"}

\* the pid of the launching process: 1 when it is the init of its container
LauncherPids == {1, 2}

OpenFd(o, ce) == [obj |-> o, cloexec |-> ce]

IsOpen(t, f) == f \in FdRange /\ t[f].obj # ""

\* descriptor allocation: the lowest number not in use
LowestFree(t) ==
    CHOOSE f \in FdRange : ~IsOpen(t, f) /\ \A g \in 0 .. (f - 1) : IsOpen(t, g)

Close(t, f) == IF f \in FdRange THEN [t EXCEPT ![f] = ClosedFd] ELSE t

\* closing the numbers of fds in this order closes one that is not open
\* (never opened, or closed before)
BadClose(t, fds) ==
    \E i \in 1 .. Len(fds) :
        \/ ~IsOpen(t, fds[i])
        \/ \E j \in 1 .. (i - 1) : fds[j] = fds[i]

StdStream(f) ==
    CASE f = 0 -> "tty_in" [] f = 1 -> "tty_out" [] f = 2 -> "tty_err" [] OTHER -> "other"

LauncherTable(open, with_file) ==
    LET t0 == [f \in FdRange |-> IF f \in open THEN OpenFd(StdStream(f), FALSE)
                                               ELSE ClosedFd]
    IN  IF with_file THEN [t0 EXCEPT ![LowestFree(t0)] = OpenFd("file", TRUE)] ELSE t0

FileFd(t) == CHOOSE f \in FdRange : t[f].obj = "file"

\* the dispositions the launcher has installed when it calls spawn_process;
\* SIGKILL cannot be given one
LauncherDispositions ==
    {d \in [DispositionSignals -> {"SIG_DFL", "SIG_IGN", "handler"}] :
        d[SIGKILL] = "SIG_DFL"}

SpawnInit ==
    /\ build \in Builds
    /\ PipeIdle
    /\ RaceIdle
    /\ SigIdle
    /\ MonRest
    /\ env \in [sigchld_ignored : BOOLEAN, kill_denied : {FALSE}]
    /\ \E impl \in Impls, kd \in BOOLEAN, cs \in BOOLEAN, pg \in BOOLEAN,
          pe \in BOOLEAN, wd \in WorkingDirs, open \in LauncherTables,
          std \in StdChoices, ih \in BOOLEAN, lp \in LauncherPids,
          dp \in LauncherDispositions,
          no \in SUBSET {"out_pid", "out_pidfd", "out_exit_pipe_fd"} :
         /\ impl = "process_spawn" =>
                (~cs /\ ~pg /\ ~ih /\ build \in {LinuxBuild, PlainUnixBuild})
         /\ lp = 1 => kd
         /\ ih => std = "file"
         /\ 4 \in open => (~kd /\ ~cs /\ ~pg /\ wd = "NULL")
         /\ dp # NoHandlers =>
                (open = {0, 1, 2} /\ std = "inherit" /\ ~kd /\ ~pg /\ wd = "NULL" /\ pe)
         /\ no # {} =>
                (open = {0, 1, 2} /\ std = "inherit" /\ ~kd /\ ~pg /\ wd = "NULL" /\ pe
                 /\ dp = NoHandlers)
         /\ pfd = LauncherTable(open, std = "file")
         /\ inp = [impl |-> impl, kill_on_parent_death |-> kd, create_suspended |-> cs,
                   create_new_process_group |-> pg, path_exists |-> pe,
                   working_dir |-> wd,
                   stdin_fd |-> 0,
                   stdout_fd |-> CASE std = "inherit" -> 1
                                   [] std = "file" -> FileFd(pfd)
                                   [] OTHER -> MaxFd,
                   stderr_fd |-> IF std = "file" THEN FileFd(pfd) ELSE 2,
                   inherited_handles |-> IF ih THEN {FileFd(pfd)} ELSE {},
                   launcher_pid |-> lp, dispositions |-> dp, null_out |-> no]
    /\ par = [IdleParent EXCEPT !.pc = "entry"]
    /\ chl = NoChild
    /\ cfd = [f \in FdRange |-> ClosedFd]
    /\ pipes = NoWrites

\* ---- the launching thread ----

\* every return with -1 before the child exists
FailEarly(e) == [par EXCEPT !.pc = "done", !.ret = -1, !.errno = e, !.mask = "old"]

\* pal_process.c:365-393: ENOTSUP without tgkill, the two create_cloexec_pipe
\* calls (53-75), all signals blocked
SpawnEntry ==
    /\ par.pc = "entry"
    /\ ~build.HAVE_POSIX_SPAWN
    /\ IF inp.create_suspended /\ ~build.HAVE_SYS_TGKILL
       THEN /\ par' = FailEarly("ENOTSUP")
            /\ UNCHANGED pfd
       ELSE \E r \in {"ok", "first_pipe_fails", "second_pipe_fails"} :
              LET w0 == LowestFree(pfd)
                  t1 == [pfd EXCEPT ![w0] = OpenFd("WR", TRUE)]
                  w1 == LowestFree(t1)
                  t2 == [t1 EXCEPT ![w1] = OpenFd("WW", TRUE)]
                  e0 == LowestFree(t2)
                  t3 == [t2 EXCEPT ![e0] = OpenFd("ER", TRUE)]
                  e1 == LowestFree(t3)
                  t4 == [t3 EXCEPT ![e1] = OpenFd("EW", TRUE)]
              IN  IF r = "ok"
                  THEN /\ par' = [par EXCEPT !.pc = "clone", !.wait_pipe = <<w0, w1>>,
                                             !.exit_pipe = <<e0, e1>>, !.mask = "all"]
                       /\ pfd' = t4
                  ELSE /\ par' = FailEarly("EMFILE")
                       /\ UNCHANGED pfd       \* 384-388: the first pipe is closed again
    /\ UNCHANGED <<build, race, pp, sigVars, monVars, inp, chl, cfd, pipes>>

\* a child-creation primitive that suspends the parent in every case
UsesVforkAlways == TRUE

\* the parent is suspended until the child execs or exits: CLONE_VFORK (402)
\* or vfork() (426) unless create_suspended; always in process_spawn.c (137, 160)
UsesVfork == ~inp.create_suspended

\* pal_process.c:397-441: clone3 with CLONE_PIDFD, or fork / vfork
Clone ==
    /\ par.pc = "clone"
    /\ \/ /\ par' = [FailEarly("EAGAIN") EXCEPT
                       !.bad_close = BadClose(pfd, <<par.wait_pipe[1], par.wait_pipe[2],
                                                     par.exit_pipe[1], par.exit_pipe[2]>>)]
          /\ pfd' = Close(Close(Close(Close(pfd, par.wait_pipe[1]), par.wait_pipe[2]),
                                par.exit_pipe[1]), par.exit_pipe[2])
          /\ UNCHANGED <<chl, cfd>>
       \/ LET fd == IF HAVE_PIDFD THEN LowestFree(pfd) ELSE -1
          IN  /\ cfd' = pfd
              /\ chl' = [NoChild EXCEPT !.state = "running", !.pc = "mask", !.mask = "all",
                                         !.sig = inp.dispositions]
              /\ pfd' = IF HAVE_PIDFD THEN [pfd EXCEPT ![fd] = OpenFd("pidfd", TRUE)]
                                      ELSE pfd
              /\ par' = [par EXCEPT !.pidfd = fd,
                                    !.pc = IF UsesVfork THEN "vfork" ELSE "parent"]
    /\ UNCHANGED <<build, race, pp, sigVars, monVars, inp, pipes>>

ChildTerminated == chl.state \in {"exiting", "zombie", "reaped"}

\* the kernel lets the vfork parent run again once the child has called
\* execve or _exit
VforkReturns ==
    /\ par.pc = "vfork"
    /\ chl.execed \/ ChildTerminated
    /\ par' = [par EXCEPT !.pc = "parent"]
    /\ UNCHANGED <<build, race, pp, sigVars, monVars, inp, chl, pfd, cfd, pipes>>

\* a parent that leaves every signal blocked
ParentCloseWriteEndsKeepMask ==
    /\ par.pc = "parent"
    /\ par' = [par EXCEPT !.pc = "read"]
    /\ pfd' = Close(Close(pfd, par.wait_pipe[2]), par.exit_pipe[2])
    /\ UNCHANGED <<build, race, pp, sigVars, monVars, inp, chl, cfd, pipes>>

\* pal_process.c:602-608: restore the mask, close the two write ends
ParentCloseWriteEnds ==
    /\ par.pc = "parent"
    /\ par' = [par EXCEPT !.pc = "read", !.mask = "old",
                          !.bad_close = @ \/ BadClose(pfd, <<par.wait_pipe[2],
                                                             par.exit_pipe[2]>>)]
    /\ pfd' = Close(Close(pfd, par.wait_pipe[2]), par.exit_pipe[2])
    /\ UNCHANGED <<build, race, pp, sigVars, monVars, inp, chl, cfd, pipes>>

\* some descriptor of the launcher or of the child refers to open file o
Holds(o) == \E f \in FdRange : pfd[f].obj = o \/ cfd[f].obj = o

\* pal_process.c:663-673, 350-360: return 0; the descriptors stored through
\* the out-parameters are *out_pidfd = pidfd and *out_exit_pipe_fd =
\* exit_pipe[0], each only if the pointer is not NULL (inp.null_out has the
\* names of the out-parameters the caller passed as NULL)
SuccessOf(p) ==
    [p EXCEPT !.pc = "done", !.ret = 0, !.out_written = TRUE,
              !.handed =
                  (IF "out_pidfd" \notin inp.null_out /\ p.pidfd >= 0
                   THEN {p.pidfd} ELSE {})
                  \cup (IF "out_exit_pipe_fd" \notin inp.null_out
                        THEN {p.exit_pipe[1]} ELSE {})]

Success == SuccessOf(par)

\* pal_process.c:196-241: POSIX_SPAWN_SETSIGDEF with
\* posix_spawnattr_setsigdefault(&attr, sigfillset): every signal of the set
\* gets the default disposition in the child
posix_spawnattr_setsigdefault(d) == [sig \in DOMAIN d |-> "SIG_DFL"]

\* execve: a caught signal becomes default, an ignored one stays ignored
ExecDispositions(d) ==
    [sig \in DOMAIN d |-> IF d[sig] = "handler" THEN "SIG_DFL" ELSE d[sig]]

\* a dup2 file action of posix_spawn: the target is kept across the exec also
\* when source and target are the same number
SpawnDup2(t, oldfd, newfd) == [t EXCEPT ![newfd] = OpenFd(t[oldfd].obj, FALSE)]

\* pal_process.c:165-359: the posix_spawn path, one call from entry to return.
\* The attributes and file actions are built in the parent (any of these
\* calls may fail, ENOMEM), then posix_spawn creates the child, applies the
\* file actions in the order they were added (stdin, stdout, stderr, exit
\* pipe onto 3, inherit, chdir) and starts the program; every failure of
\* that is the return value of posix_spawn.  POSIX_SPAWN_CLOEXEC_DEFAULT
\* closes at the exec whatever no file action made or marked.
PosixSpawn ==
    /\ par.pc = "entry"
    /\ build.HAVE_POSIX_SPAWN
    /\ IF inp.create_suspended /\ ~build.HAVE_POSIX_SPAWN_START_SUSPENDED
       THEN /\ par' = FailEarly("ENOTSUP")
            /\ UNCHANGED <<pfd, chl, cfd>>
       ELSE \E r \in {"ok", "pipe_fails", "setup_fails"} :
              LET e0 == LowestFree(pfd)
                  t1 == [pfd EXCEPT ![e0] = OpenFd("ER", TRUE)]
                  e1 == LowestFree(t1)
                  t2 == [t1 EXCEPT ![e1] = OpenFd("EW", TRUE)]
                  c1 == SpawnDup2(t2, inp.stdin_fd, 0)
                  c2 == SpawnDup2(c1, inp.stdout_fd, 1)
                  c3 == SpawnDup2(c2, inp.stderr_fd, 2)
                  c4 == SpawnDup2(c3, e1, 3)
                  kept == {0, 1, 2, 3} \cup inp.inherited_handles
                  marked == [f \in FdRange |->
                               IF IsOpen(c4, f) THEN OpenFd(c4[f].obj, f \notin kept)
                               ELSE ClosedFd]
                  err == CASE r = "pipe_fails" -> "EMFILE"
                           [] r = "setup_fails" -> "ENOMEM"
                           [] inp.working_dir # "NULL"
                                /\ ~build.HAVE_POSIX_SPAWN_FILE_ACTIONS_ADDCHDIR_NP -> "ENOTSUP"
                           [] ~IsOpen(t2, inp.stdin_fd) -> "EBADF"
                           [] ~IsOpen(c1, inp.stdout_fd) -> "EBADF"
                           [] ~IsOpen(c2, inp.stderr_fd) -> "EBADF"
                           [] inp.working_dir = "missing" -> "ENOENT"
                           [] ~inp.path_exists -> "ENOENT"
                           [] OTHER -> "none"
              IN  IF err # "none"
                  THEN /\ par' = FailEarly(err)   \* both ends of the pipe closed again
                       /\ UNCHANGED <<pfd, chl, cfd>>
                  ELSE /\ par' = SuccessOf([par EXCEPT !.exit_pipe = <<e0, e1>>])
                       /\ pfd' = t1               \* 332: close(exit_pipe[1])
                       /\ IF inp.create_suspended
                          THEN /\ chl' = [NoChild EXCEPT !.state = "stopped", !.pc = "execve",
                                     !.mask = "old",
                                     !.sig = posix_spawnattr_setsigdefault(inp.dispositions)]
                               /\ cfd' = marked
                          ELSE /\ chl' = [NoChild EXCEPT !.state = "running", !.pc = "program",
                                     !.execed = TRUE, !.mask = "old",
                                     !.sig = posix_spawnattr_setsigdefault(inp.dispositions)]
                               /\ cfd' = [f \in FdRange |->
                                            IF marked[f].cloexec THEN ClosedFd ELSE marked[f]]
    /\ UNCHANGED <<build, race, pp, sigVars, monVars, inp, pipes>>

\* pal_process.c:611-612: read(wait_pipe[0]) returns the four bytes the child
\* wrote, or 0 once no write end of the error pipe is open
ParentRead ==
    /\ par.pc = "read"
    /\ pipes.wait # "none" \/ ~Holds("WW")
    /\ par' = IF pipes.wait # "none"
              THEN [par EXCEPT !.pc = "close_wait_read", !.bytes_read = 4,
                               !.child_errno = pipes.wait]
              ELSE [par EXCEPT !.pc = "close_wait_read", !.bytes_read = 0]
    /\ UNCHANGED <<build, race, pp, sigVars, monVars, inp, chl, pfd, cfd, pipes>>

\* a signal handler runs while the read blocks: read returns -1 (EINTR); the
\* code has no retry loop around it (612)
ParentReadInterrupted ==
    /\ par.pc = "read"
    /\ pipes.wait = "none" /\ Holds("WW")
    /\ par' = [par EXCEPT !.pc = "close_wait_read", !.bytes_read = -1,
                          !.errno = "EINTR", !.intr = par.intr + 1]
    /\ UNCHANGED <<build, race, pp, sigVars, monVars, inp, chl, pfd, cfd, pipes>>

\* pal_process.c:613-631, 663-673: close(wait_pipe[0]); four bytes read: reap
\* the child; otherwise wait for the stop (create_suspended) or return 0
ParentCloseWaitRead ==
    /\ par.pc = "close_wait_read"
    /\ pfd' = Close(pfd, par.wait_pipe[1])
    /\ LET p1 == [par EXCEPT !.bad_close = @ \/ BadClose(pfd, <<par.wait_pipe[1]>>)]
       IN  par' = IF par.bytes_read = 4 THEN [p1 EXCEPT !.pc = "reap_failed"]
                  ELSE IF inp.create_suspended THEN [p1 EXCEPT !.pc = "wait_stop"]
                  ELSE SuccessOf(p1)
    /\ UNCHANGED <<build, race, pp, sigVars, monVars, inp, chl, cfd, pipes>>

\* an error return that forgets the read end of the exit pipe
FailLateLeaking(e, how) ==
    /\ par' = [par EXCEPT !.pc = "done", !.ret = -1, !.errno = e, !.reap = how]
    /\ pfd' = Close(pfd, par.pidfd)

\* pal_process.c:620-627, 642-658: close pidfd and the exit pipe, return -1
FailLate(e, how) ==
    /\ par' = [par EXCEPT !.pc = "done", !.ret = -1, !.errno = e, !.reap = how,
                          !.bad_close = @ \/ BadClose(pfd,
                              IF HAVE_PIDFD THEN <<par.pidfd, par.exit_pipe[1]>>
                              ELSE <<par.exit_pipe[1]>>)]
    /\ pfd' = Close(Close(pfd, par.pidfd), par.exit_pipe[1])

\* pal_process.c:615-628: one waitid(P_PIDFD) / waitpid, then return -1 with
\* the child's errno
ParentReapFailedChild ==
    /\ par.pc = "reap_failed"
    /\ chl.state \in {"zombie", "reaped"}
    /\ chl' = IF chl.state = "zombie" THEN [chl EXCEPT !.state = "reaped"] ELSE chl
    /\ FailLate(par.child_errno, IF chl.state = "zombie" THEN "reaped" ELSE "ECHILD")
    /\ UNCHANGED <<build, race, pp, sigVars, monVars, inp, cfd, pipes>>

\* the same wait interrupted before the child became a zombie: it is not
\* issued again (619, 623)
ParentReapInterrupted ==
    /\ par.pc = "reap_failed"
    /\ chl.state \notin {"zombie", "reaped"}
    /\ FailLate(par.child_errno, "EINTR")
    /\ UNCHANGED <<build, race, pp, sigVars, monVars, inp, chl, cfd, pipes>>

\* pal_process.c:631-661: waitpid(child_pid, WUNTRACED) returned
ParentWaitStop ==
    /\ par.pc = "wait_stop"
    /\ chl.state \in {"stopped", "zombie", "reaped"}
    /\ CASE chl.state = "stopped" ->
                /\ par' = Success
                /\ UNCHANGED <<pfd, chl>>
         [] chl.state = "zombie" ->        \* 651: !WIFSTOPPED(status)
                /\ chl' = [chl EXCEPT !.state = "reaped"]
                /\ FailLate("ECHILD", "reaped")
         [] OTHER ->                       \* 639: wait_result == -1, ECHILD
                /\ FailLate("ECHILD", "ECHILD")
                /\ UNCHANGED chl
    /\ UNCHANGED <<build, race, pp, sigVars, monVars, inp, cfd, pipes>>

\* EINTR in the while loop of line 637: the wait is issued again
ParentWaitStopInterrupted ==
    /\ par.pc = "wait_stop"
    /\ chl.state \notin {"stopped", "zombie", "reaped"}
    /\ par.intr < MaxIntr
    /\ par' = [par EXCEPT !.intr = par.intr + 1]
    /\ UNCHANGED <<build, race, pp, sigVars, monVars, inp, chl, pfd, cfd, pipes>>

\* ---- the child ----
\* (wait_pipe and exit_pipe are C arrays indexed from 0; the tuples here are
\* indexed from 1: par.wait_pipe[1] is the read end, par.wait_pipe[2] the
\* write end.  The child has its own copy of both arrays.)

AllClosed == [f \in FdRange |-> ClosedFd]

\* _exit(code): the descriptors are closed and a vfork parent may run
Exit(step, code) ==
    /\ chl' = [chl EXCEPT !.state = "exiting", !.failed = step, !.exit_code = code]
    /\ cfd' = AllClosed

\* pal_process.c:45-50  write_errno_and_exit: write(pipe_fd, &err, 4) goes to
\* whatever open file descriptor number wait_pipe[1] refers to in the child at
\* that moment; a failed write is ignored; then _exit(127)
write_errno_and_exit(step, err) ==
    LET target == cfd[par.wait_pipe[2]].obj
    IN  /\ pipes' = CASE target = "WW" /\ Holds("WR") -> [pipes EXCEPT !.wait = err]
                      [] target = "EW" -> [pipes EXCEPT !.exit = err]
                      [] target \in {"", "WW", "WR", "ER"} -> pipes
                      [] OTHER -> [pipes EXCEPT !.stray = target]
        /\ Exit(step, 127)

\* the child goes on to the next step
Goto(next) == chl' = [chl EXCEPT !.pc = next]

AtStep(step) == chl.state = "running" /\ ~chl.execed /\ chl.pc = step

\* pal_process.c:445
ChildRestoreMask ==
    /\ AtStep("mask")
    /\ chl' = [chl EXCEPT !.pc = "setpgid", !.mask = "old"]
    /\ UNCHANGED <<build, race, pp, sigVars, monVars, inp, par, pfd, cfd, pipes>>

\* pal_process.c:450-454
ChildSetpgid ==
    /\ AtStep("setpgid")
    /\ IF inp.create_new_process_group
       THEN \/ /\ chl' = [chl EXCEPT !.pc = "pdeathsig", !.own_group = TRUE]
               /\ UNCHANGED <<cfd, pipes>>
            \/ write_errno_and_exit("setpgid", "EPERM")
       ELSE /\ Goto("pdeathsig")
            /\ UNCHANGED <<cfd, pipes>>
    /\ UNCHANGED <<build, race, pp, sigVars, monVars, inp, par, pfd>>

\* pal_process.c:468: getppid() is the launcher's pid while the launcher lives
getppid == inp.launcher_pid

\* pal_process.c:457-480: prctl(PR_SET_PDEATHSIG, SIGTERM), then
\* getppid() == 1 -> _exit(0)
ChildParentDeathSignal ==
    /\ AtStep("pdeathsig")
    /\ IF inp.kill_on_parent_death /\ build.HAVE_PDEATHSIG
       THEN \/ write_errno_and_exit("prctl", "EINVAL")
            \/ IF getppid = 1
               THEN /\ Exit("parent_gone", 0)
                    /\ UNCHANGED pipes
               ELSE /\ chl' = [chl EXCEPT !.pc = "sigreset", !.pdeathsig = TRUE]
                    /\ UNCHANGED <<cfd, pipes>>
       ELSE /\ Goto("sigreset")
            /\ UNCHANGED <<cfd, pipes>>
    /\ UNCHANGED <<build, race, pp, sigVars, monVars, inp, par, pfd>>

\* pal_process.c:488-500: one turn of the loop: SIGKILL and SIGSTOP are
\* skipped, a disposition that is neither SIG_IGN nor SIG_DFL becomes SIG_DFL
ResetDisposition(sig, oldhandler) ==
    IF sig = SIGKILL \/ sig = SIGSTOP THEN oldhandler
    ELSE IF oldhandler # "SIG_IGN" /\ oldhandler # "SIG_DFL" THEN "SIG_DFL"
    ELSE oldhandler

\* pal_process.c:482-501: custom handlers back to SIG_DFL
ChildResetSignals ==
    /\ AtStep("sigreset")
    /\ chl' = [chl EXCEPT !.pc = "close_wait_read",
                          !.sig = [sig \in DOMAIN @ |-> ResetDisposition(sig, @[sig])]]
    /\ UNCHANGED <<build, race, pp, sigVars, monVars, inp, par, pfd, cfd, pipes>>

\* pal_process.c:504
ChildCloseWaitRead ==
    /\ AtStep("close_wait_read")
    /\ cfd' = Close(cfd, par.wait_pipe[1])
    /\ Goto("dup_exit")
    /\ UNCHANGED <<build, race, pp, sigVars, monVars, inp, par, pfd, pipes>>

\* dup2(oldfd, newfd): EBADF when oldfd is not open; nothing happens when the
\* two are equal; otherwise newfd is silently closed first and the copy has
\* no close-on-exec flag
Dup2Fails(t, oldfd) == ~IsOpen(t, oldfd)

Dup2(t, oldfd, newfd) ==
    IF oldfd = newfd THEN t ELSE [t EXCEPT ![newfd] = OpenFd(t[oldfd].obj, FALSE)]

\* pal_process.c:506-512: dup2(exit_pipe[1], 3); close(exit_pipe[0]);
\* close(exit_pipe[1])
ChildDupExitPipe ==
    /\ AtStep("dup_exit")
    /\ IF Dup2Fails(cfd, par.exit_pipe[2])
       THEN write_errno_and_exit("dup_exit", "EBADF")
       ELSE /\ cfd' = Close(Close(Dup2(cfd, par.exit_pipe[2], 3), par.exit_pipe[1]),
                            par.exit_pipe[2])
            /\ Goto("stdin")
            /\ UNCHANGED pipes
    /\ UNCHANGED <<build, race, pp, sigVars, monVars, inp, par, pfd>>

\* pal_process.c:515-531: one of the three redirections
Redirect(step, fd, std, next) ==
    /\ AtStep(step)
    /\ IF fd = std
       THEN /\ Goto(next)
            /\ UNCHANGED <<cfd, pipes>>
       ELSE IF Dup2Fails(cfd, fd)
            THEN write_errno_and_exit(step, "EBADF")
            ELSE /\ cfd' = Dup2(cfd, fd, std)
                 /\ Goto(next)
                 /\ UNCHANGED pipes
    /\ UNCHANGED <<build, race, pp, sigVars, monVars, inp, par, pfd>>

ChildRedirectStdin == Redirect("stdin", inp.stdin_fd, 0, "stdout")

ChildRedirectStdout == Redirect("stdout", inp.stdout_fd, 1, "stderr")

\* a bootstrap that goes from the redirections straight to the chdir
ChildRedirectStderrThenChdir == Redirect("stderr", inp.stderr_fd, 2, "chdir")

ChildRedirectStderr == Redirect("stderr", inp.stderr_fd, 2, "close_range")

\* pal_process.c:533-558: close_range(4, ~0U, CLOSE_RANGE_CLOEXEC), then the
\* flag is taken off the inherited handles >= 4 (not in process_spawn.c)
ChildCloseRange ==
    /\ AtStep("close_range")
    /\ cfd' = IF build.HAVE_CLOSE_RANGE
              THEN [f \in FdRange |->
                      IF f >= 4 /\ IsOpen(cfd, f)
                      THEN OpenFd(cfd[f].obj, f \notin inp.inherited_handles)
                      ELSE cfd[f]]
              ELSE cfd
    /\ Goto("chdir")
    /\ UNCHANGED <<build, race, pp, sigVars, monVars, inp, par, pfd, pipes>>

\* pal_process.c:560-565
ChildChdir ==
    /\ AtStep("chdir")
    /\ IF inp.working_dir = "missing"
       THEN write_errno_and_exit("chdir", "ENOENT")
       ELSE /\ Goto(IF inp.create_suspended THEN "close_wait_write" ELSE "execve")
            /\ UNCHANGED <<cfd, pipes>>
    /\ UNCHANGED <<build, race, pp, sigVars, monVars, inp, par, pfd>>

\* pal_process.c:569-571: create_suspended: close(wait_pipe[1])
ChildCloseWaitWrite ==
    /\ AtStep("close_wait_write")
    /\ cfd' = Close(cfd, par.wait_pipe[2])
    /\ Goto("stop")
    /\ UNCHANGED <<build, race, pp, sigVars, monVars, inp, par, pfd, pipes>>

\* a bootstrap that does not stop: the child goes straight on to execve
ChildStopSkipped ==
    /\ AtStep("stop")
    /\ Goto("execve")
    /\ UNCHANGED <<build, race, pp, sigVars, monVars, inp, par, pfd, cfd, pipes>>

\* pal_process.c:573-581: SIGSTOP to itself
ChildStop ==
    /\ AtStep("stop")
    /\ chl' = [chl EXCEPT !.state = "stopped", !.pc = "execve"]
    /\ UNCHANGED <<build, race, pp, sigVars, monVars, inp, par, pfd, cfd, pipes>>

\* the caller of spawn_process resumes the suspended child (SIGCONT) after
\* spawn_process has returned the handle
ChildResumed ==
    /\ chl.state = "stopped"
    /\ par.pc = "done" /\ par.ret = 0
    /\ chl' = [chl EXCEPT !.state = "running"]
    /\ UNCHANGED <<build, race, pp, sigVars, monVars, inp, par, pfd, cfd, pipes>>

\* pal_process.c:585-596: execve; on success the close-on-exec descriptors
\* are closed; on failure the errno is written unless create_suspended
ChildExecve ==
    /\ AtStep("execve")
    /\ IF inp.path_exists
       THEN /\ chl' = [chl EXCEPT !.execed = TRUE, !.pc = "program",
                                  !.sig = ExecDispositions(@)]
            /\ cfd' = [f \in FdRange |-> IF cfd[f].cloexec THEN ClosedFd ELSE cfd[f]]
            /\ UNCHANGED pipes
       ELSE IF ~inp.create_suspended
            THEN write_errno_and_exit("execve", "ENOENT")
            ELSE /\ Exit("execve", 127)
                 /\ UNCHANGED pipes
    /\ UNCHANGED <<build, race, pp, sigVars, monVars, inp, par, pfd>>

\* the program that was started ends
ProgramExit ==
    /\ chl.state = "running" /\ chl.execed
    /\ chl' = [chl EXCEPT !.state = "exiting"]
    /\ cfd' = AllClosed
    /\ UNCHANGED <<build, race, pp, sigVars, monVars, inp, par, pfd, pipes>>

\* the exiting child becomes a zombie, or disappears at once when the
\* launcher ignores SIGCHLD
ChildZombie ==
    /\ chl.state = "exiting"
    /\ chl' = [chl EXCEPT !.state = IF env.sigchld_ignored THEN "reaped" ELSE "zombie"]
    /\ UNCHANGED <<build, race, pp, sigVars, monVars, inp, par, pfd, cfd, pipes>>

SpawnNext ==
    \/ PosixSpawn
    \/ SpawnEntry \/ Clone \/ VforkReturns \/ ParentCloseWriteEnds
    \/ ParentRead \/ ParentReadInterrupted \/ ParentCloseWaitRead
    \/ ParentReapFailedChild \/ ParentReapInterrupted
    \/ ParentWaitStop \/ ParentWaitStopInterrupted
    \/ ChildRestoreMask \/ ChildSetpgid \/ ChildParentDeathSignal
    \/ ChildResetSignals \/ ChildCloseWaitRead \/ ChildDupExitPipe
    \/ ChildRedirectStdin \/ ChildRedirectStdout \/ ChildRedirectStderr
    \/ ChildCloseRange \/ ChildChdir \/ ChildCloseWaitWrite \/ ChildStop
    \/ ChildResumed \/ ChildExecve \/ ProgramExit \/ ChildZombie

SpecSpawn == SpawnInit /\ [][SpawnNext]_vars

\* The steps the kernel's scheduler eventually lets the launching thread and
\* the child take: every statement of spawn_process and of the bootstrap, and
\* the kernel's own steps.  Not among them: signal handlers interrupting a
\* call, the resume of a suspended child, and the end of the started program,
\* which may never happen.
SpawnProgress ==
    \/ PosixSpawn
    \/ SpawnEntry \/ Clone \/ VforkReturns \/ ParentCloseWriteEnds
    \/ ParentRead \/ ParentCloseWaitRead
    \/ ParentReapFailedChild \/ ParentWaitStop
    \/ ChildRestoreMask \/ ChildSetpgid \/ ChildParentDeathSignal
    \/ ChildResetSignals \/ ChildCloseWaitRead \/ ChildDupExitPipe
    \/ ChildRedirectStdin \/ ChildRedirectStdout \/ ChildRedirectStderr
    \/ ChildCloseRange \/ ChildChdir \/ ChildCloseWaitWrite \/ ChildStop
    \/ ChildExecve \/ ChildZombie

SpecSpawnLive == SpecSpawn /\ WF_vars(SpawnProgress)

(***************************************************************************)
(* Claims about spawn_process (SpecSpawn).                                 *)
(***************************************************************************)

\* the child went through every bootstrap step and is at execve or past it
ReachedExecve == chl.pc \in {"execve", "program"}

\* the launcher called spawn_process with its descriptors 0, 1 and 2 open
StdioOpen == \A f \in 0 .. 2 : IsOpen(pfd, f)

\* the bootstrap steps that end in write_errno_and_exit with their own errno
FailingSteps == {"setpgid", "prctl", "dup_exit", "stdin", "stdout", "stderr", "chdir"}

\* C1 as stated (for a launcher with 0, 1 and 2 open): spawn_process returns
\* 0 only when the child completed every bootstrap step and execve succeeded
\* or (create_suspended) is the only step left; and when the child wrote an
\* error code into the error pipe it returns -1 with that code as errno and
\* writes no out parameter.
HandshakeDecidesOutcome ==
    (par.pc = "done" /\ StdioOpen) =>
        /\ par.ret = 0 =>
               IF inp.create_suspended THEN ReachedExecve ELSE chl.execed
        /\ pipes.wait # "none" =>
               (par.ret = -1 /\ par.errno = pipes.wait /\ ~par.out_written)

\* C2 as stated, for the launches in which the child reports a failed execve
\* (create_suspended = 0) by a launcher with 0, 1 and 2 open: with any
\* kill_on_parent_death, process group and inherited handles, when the path
\* does not exist and no earlier step failed with an error of its own,
\* spawn_process returns -1 with errno ENOENT and writes no out parameter.
MissingPathIsReported ==
    (par.pc = "done" /\ StdioOpen /\ chl.state # "none"
        /\ ~inp.path_exists /\ ~inp.create_suspended /\ chl.failed \notin FailingSteps)
        => (par.ret = -1 /\ par.errno = "ENOENT" /\ ~par.out_written)

\* C3 as stated (for a launcher with 0, 1 and 2 open): whenever spawn_process
\* returns -1 after the child was created, the child has terminated and has
\* been reaped.
FailedSpawnLeavesNoChild ==
    (par.pc = "done" /\ StdioOpen /\ par.ret = -1 /\ chl.state # "none")
        => chl.state = "reaped"

\* C13: when spawn_process with create_suspended returns 0 the child is
\* stopped and has not called execve; the child calls execve only after
\* spawn_process has returned 0 and the child was set running again (SIGCONT),
\* so the program does nothing before the resume.
SuspendedChildWaitsForResume ==
    [][ /\ (par.pc # "done" /\ par'.pc = "done" /\ par'.ret = 0 /\ inp.create_suspended)
            => (chl'.state = "stopped" /\ ~chl'.execed /\ chl'.pc = "execve")
        /\ (inp.create_suspended /\ ~chl.execed /\ chl'.execed)
            => (par.pc = "done" /\ par.ret = 0 /\ chl.state = "running")
        /\ (inp.create_suspended /\ chl.state = "stopped" /\ chl'.state = "running")
            => (par.pc = "done" /\ par.ret = 0) ]_vars

\* C13 witness: spawn_process returned 0 with the child stopped before execve
SuspendedChildWaitsForResumeWitness ==
    /\ inp.create_suspended /\ par.pc = "done" /\ par.ret = 0 /\ par.out_written
    /\ chl.state = "stopped" /\ chl.pc = "execve" /\ ~chl.execed

\* C14: spawn_process always returns: under every option combination the
\* launching thread is never blocked forever on the child; with
\* create_suspended the child is never created by a primitive that suspends
\* the parent until the child execs or exits, and the handshake read and the
\* wait for the stop both complete.
SpawnAlwaysReturns ==
    /\ [](inp.create_suspended => par.pc # "vfork")
    /\ <>(par.pc = "done")

\* C14 witness: a suspended start returned 0 although a signal had
\* interrupted the launching thread on the way
SpawnAlwaysReturnsWitness ==
    /\ inp.create_suspended /\ par.pc = "done" /\ par.ret = 0
    /\ par.intr > 0 /\ chl.state = "stopped"

\* C16: at every return of spawn_process (success, pipe-creation failure,
\* fork/clone failure, bootstrap failure, suspended-start failure) the signal
\* mask of the calling thread is the mask it had on entry.
SignalMaskRestored == par.pc = "done" => par.mask = "old"

\* C16 witness: fork/clone failed after every signal had been blocked, and
\* the call returned with the old mask
SignalMaskRestoredWitness ==
    /\ par.pc = "done" /\ par.ret = -1 /\ par.errno = "EAGAIN"
    /\ par.wait_pipe[1] >= 0 /\ par.mask = "old"

\* the open files spawn_process creates
CreatedFiles == {"WR", "WW", "ER", "EW", "pidfd"}

SuccessHandsOverDescriptors ==
    (par.pc = "done" /\ par.ret = 0) =>
        \A f \in FdRange : pfd[f].obj \in CreatedFiles => f \in par.handed

\* C19 as stated: whatever numbers the two pipes were given, when the child
\* is about to call execve its descriptor 3 is open, not close-on-exec, and
\* is the write end of the exit pipe; and (unless create_suspended, where the
\* child has closed the error pipe by then; and on the fork/clone path, the
\* one with an error pipe) the number bootstrap failures are written to is
\* still the write end of the error pipe.
ExitPipeOnDescriptorThree ==
    AtStep("execve") =>
        /\ cfd[3].obj = "EW" /\ ~cfd[3].cloexec
        /\ (~inp.create_suspended /\ ~build.HAVE_POSIX_SPAWN)
               => cfd[par.wait_pipe[2]].obj = "WW"

\* C20: whatever numbers the caller passes as stdin_fd, stdout_fd and stderr_fd
\* (3 and numbers below it included, coinciding ones included), when the child
\* reaches execve its descriptors 0, 1 and 2 refer to the files those numbers
\* referred to in the launching process when spawn_process was called.
StandardStreamsAreTheCallers ==
    AtStep("execve") =>
        \A i \in 0 .. 2 :
            LET fd == <<inp.stdin_fd, inp.stdout_fd, inp.stderr_fd>>[i + 1]
            IN  (IsOpen(pfd, fd) /\ pfd[fd].obj \in {"tty_in", "tty_out", "tty_err", "file"})
                    => cfd[i].obj = pfd[fd].obj

\* C21 as stated: when the child is about to call execve, every descriptor
\* other than 0, 1, 2, 3 and those listed in inherited_handles is closed or
\* close-on-exec, and every descriptor listed in inherited_handles is open and
\* not close-on-exec.
OnlyListedDescriptorsInherited ==
    AtStep("execve") =>
        \A f \in FdRange :
            /\ f \notin ({0, 1, 2, 3} \cup inp.inherited_handles)
                   => (~IsOpen(cfd, f) \/ cfd[f].cloexec)
            /\ f \in inp.inherited_handles => (IsOpen(cfd, f) /\ ~cfd[f].cloexec)

\* C22 as stated: on every launch path, when the child is at execve (or the
\* program has just been started by it), for every signal other than SIGKILL
\* and SIGSTOP a disposition that was a custom handler in the launcher is
\* default in the child, and one that was ignored or default is unchanged.
DispositionsResetOnlyIfCustom ==
    ReachedExecve =>
        \A sig \in DispositionSignals \ {SIGKILL, SIGSTOP} :
            chl.sig[sig] = IF inp.dispositions[sig] = "handler" THEN "SIG_DFL"
                           ELSE inp.dispositions[sig]

\* the place of each position of the child in the list of bootstrap steps of
\* the specification: parent-death arrangement, process group, signal reset,
\* exit pipe onto 3, redirections, close-on-exec marking, chdir, suspend, execve
StatedOrder(pc) ==
    CASE pc = "mask" -> 0
      [] pc = "pdeathsig" -> 1
      [] pc = "setpgid" -> 2
      [] pc = "sigreset" -> 3
      [] pc \in {"close_wait_read", "dup_exit"} -> 4
      [] pc \in {"stdin", "stdout", "stderr"} -> 5
      [] pc = "close_range" -> 6
      [] pc = "chdir" -> 7
      [] pc \in {"close_wait_write", "stop"} -> 8
      [] pc = "execve" -> 9
      [] OTHER -> 10

\* the same with the first two steps as the code has them: process group,
\* then parent-death arrangement
CodeOrder(pc) ==
    CASE pc = "setpgid" -> 1
      [] pc = "pdeathsig" -> 2
      [] OTHER -> StatedOrder(pc)

StepErrno(step) ==
    CASE step = "setpgid" -> "EPERM"
      [] step = "prctl" -> "EINVAL"
      [] step \in {"dup_exit", "stdin", "stdout", "stderr"} -> "EBADF"
      [] OTHER -> "ENOENT"

\* C24 as stated: when a bootstrap step before execve failed in the child
\* (setpgid, prctl, a dup2 onto 3, 0, 1 or 2, chdir), the child wrote that
\* step's errno into the error pipe and exited with code 127, and
\* spawn_process returns -1 with exactly that errno.
BootstrapFailureIsReported ==
    (par.pc = "done" /\ chl.failed \in FailingSteps) =>
        /\ pipes.wait = StepErrno(chl.failed)
        /\ chl.exit_code = 127
        /\ par.ret = 0 - 1
        /\ par.errno = StepErrno(chl.failed)

\* C31 as stated: when spawn_process has returned after its handshake read
\* was interrupted by a signal (read returned -1) and the child failed a
\* bootstrap step, the call returned -1 with that step's errno and not
\* success; and when it has returned on the failure path (four bytes read),
\* the child has been collected, also if the reaping wait was interrupted.
SpawnOutcomeIgnoresSignals ==
    par.pc = "done" =>
        /\ (par.bytes_read = 0 - 1 /\ chl.failed \in FailingSteps) =>
               (par.ret = 0 - 1 /\ par.errno = StepErrno(chl.failed))
        /\ par.bytes_read = 4 => chl.state = "reaped"

\* C25 as stated, for the launches of this specification, in all of which the
\* launching process is alive throughout (whatever its pid, 1 included): with
\* kill_on_parent_death on a build with PR_SET_PDEATHSIG the child does not
\* terminate at the parent-death re-check but goes on towards execve, and
\* spawn_process returns no handle for a child that ended at that check.
LiveLauncherChildProceeds ==
    (inp.kill_on_parent_death /\ build.HAVE_PDEATHSIG) =>
        /\ chl.failed # "parent_gone"
        /\ (par.pc = "done" /\ par.ret = 0) => ~(ChildTerminated /\ chl.pc = "pdeathsig")

(***************************************************************************)
(* SpecSend: send_signal on one handle (pal_process.c:720-739,             *)
(* process_spawn.c:359-379).  The handle is the pid and the pidfd that     *)
(* spawn_process stored; the caller may also pass pidfd = -1.  The child   *)
(* runs, stops, terminates and is collected between the calls, and once it *)
(* is collected the kernel may give its pid to an unrelated process.       *)
(*   snd.via  the system call issued: "pidfd_send_signal", "kill", "none"  *)
(*   snd.to   the process that received the signal: "child", "other",      *)
(*            "none"                                                       *)
(***************************************************************************)
MaxSends == 1            \* send_signal calls made on one handle

SIGTTIN == 21
SIGTTOU == 22
SIGWINCH == 28

\* neutral values offered to send_signal: both tables and values around them
SendInputs == (0 - 11) .. MaxManagedSignal

\* process_spawn.c:337-354  map_managed_signal_to_native of the earlier file
process_spawn_map_managed_signal_to_native(managed_signal) ==
    CASE managed_signal = 9 -> SIGKILL
      [] managed_signal = 0 - 1 -> SIGHUP
      [] managed_signal = 0 - 2 -> SIGINT
      [] managed_signal = 0 - 3 -> SIGQUIT
      [] managed_signal = 0 - 4 -> SIGTERM
      [] managed_signal = 0 - 5 -> SIGCHLD
      [] managed_signal = 0 - 6 -> SIGCONT
      [] managed_signal = 0 - 7 -> SIGWINCH
      [] managed_signal = 0 - 8 -> SIGTTIN
      [] managed_signal = 0 - 9 -> SIGTTOU
      [] managed_signal = 0 - 10 -> SIGTSTP
      [] OTHER -> -1

\* process_spawn.c:359-379  send_signal of the earlier file: __linux__ decides
process_spawn_send_signal(pidfd, managed_signal) ==
    LET native_signal == process_spawn_map_managed_signal_to_native(managed_signal)
    IN  IF native_signal = -1
        THEN [via |-> "none", native |-> native_signal, errno |-> "EINVAL"]
        ELSE IF build.os = "linux" /\ pidfd >= 0
             THEN [via |-> "pidfd_send_signal", native |-> native_signal, errno |-> "none"]
             ELSE [via |-> "kill", native |-> native_signal, errno |-> "none"]

\* the pidfd a successful spawn_process of the implementation stored
\* (pal_process.c:668, process_spawn.c:320-326)
SpawnedPidfd(impl) ==
    IF impl = "pal_process" THEN HandlePidfd
    ELSE IF build.os = "linux" THEN 4 ELSE -1

\* the process a system call reaches, or the error it fails with.
\* pidfd_send_signal names the process instance; kill names whatever process
\* has the pid now.
Reaches(via) ==
    CASE via = "none" -> "none"
      [] proc.state # "reaped" -> SignalAnswer(proc)
      [] via = "kill" /\ pid_reused -> "other"
      [] OTHER -> "ESRCH"

\* default dispositions: what a delivered signal does to the child
Delivered(p, native_signal) ==
    CASE p.state = "zombie" -> p
      [] native_signal = SIGKILL -> Terminated("killed", SIGKILL)
      [] native_signal \in {SIGSTOP, SIGTSTP, SIGTTIN, SIGTTOU} ->
             [p EXCEPT !.state = "stopped"]
      [] native_signal = SIGCONT -> [p EXCEPT !.state = "running"]
      [] native_signal \in {SIGCHLD, SIGWINCH} -> p
      [] p.state = "stopped" -> p                  \* stays pending
      [] OTHER -> Terminated(IF native_signal \in CoreSignals THEN "dumped" ELSE "killed",
                             native_signal)

SendInit ==
    /\ build \in Builds
    /\ PipeIdle
    /\ RaceIdle
    /\ MapperIdle
    /\ SpawnIdle
    /\ \E impl \in Impls :
           /\ impl = "process_spawn" => build \in {LinuxBuild, PlainUnixBuild}
           /\ snd = [IdleSend EXCEPT !.impl = impl]
    /\ pid_reused = FALSE
    /\ proc = [state |-> "running", how |-> "none", val |-> 0]
    /\ exit_pipe_held = TRUE
    /\ env \in [sigchld_ignored : BOOLEAN, kill_denied : BOOLEAN]
    /\ call = IdleCall
    /\ out = FreshOut
    /\ hist = NoHistory

\* the owner of the handle collects the terminated child (a monitor call)
ChildCollected ==
    /\ proc.state = "zombie"
    /\ proc' = Collected(proc)
    /\ UNCHANGED <<build, race, pp, spawnVars, sigVars, exit_pipe_held, env, call, out, hist>>

\* the kernel hands the free pid to a process started by someone else
PidReused ==
    /\ proc.state = "reaped"
    /\ ~pid_reused
    /\ pid_reused' = TRUE
    /\ UNCHANGED <<build, race, pp, spawnVars, monVars, mapper, snd>>

\* one call send_signal(pidfd, pid, managed_signal) from entry to return
SendSignal ==
    /\ snd.n < MaxSends
    /\ \E pidfd \in {0 - 1, SpawnedPidfd(snd.impl)}, managed_signal \in SendInputs :
         LET s == IF snd.impl = "pal_process"
                  THEN send_signal(pidfd, managed_signal)
                  ELSE process_spawn_send_signal(pidfd, managed_signal)
             r == IF s.errno # "none" THEN s.errno ELSE Reaches(s.via)
             to == IF r \in {"ok", "other"} THEN (IF r = "ok" THEN "child" ELSE "other")
                   ELSE "none"
         IN  /\ snd' = [pc |-> "done", impl |-> snd.impl, pidfd |-> pidfd,
                        managed_signal |-> managed_signal, n |-> snd.n + 1,
                        via |-> s.via, native |-> s.native,
                        ret |-> IF to = "none" THEN 0 - 1 ELSE 0,
                        errno |-> IF to = "none" THEN r ELSE "none", to |-> to]
             /\ proc' = IF to = "child" THEN Delivered(proc, s.native) ELSE proc
    /\ UNCHANGED <<build, race, pp, spawnVars, mapper, pid_reused, exit_pipe_held, env, call, out, hist>>

SendNext ==
    \/ ProcExit \/ ProcSignalled \/ ProcResumed
    \/ ChildCollected \/ PidReused
    \/ SendSignal

SpecSend == SendInit /\ [][SendNext]_vars

(***************************************************************************)
(* Claims about send_signal (SpecSend).                                    *)
(***************************************************************************)

\* the neutral values of the switch of each file
\* (pal_process.c:682-695, process_spawn.c:340-350)
AcceptedSignals(impl) ==
    IF impl = "pal_process"
    THEN {1, 2, 3, 6, 9, 10, 12, 13, 14, 15, 17, 18, 19, 20}
    ELSE {9} \cup ((0 - 10) .. (0 - 1))

\* C11: send_signal called with a neutral value outside the mapping table
\* returns -1 with errno EINVAL and issues neither kill nor pidfd_send_signal,
\* so no process receives anything; no unknown value becomes a default signal.
UnknownSignalIsRejected ==
    (snd.pc = "done" /\ snd.managed_signal \notin AcceptedSignals(snd.impl)) =>
        /\ snd.ret = 0 - 1
        /\ snd.errno = "EINVAL"
        /\ snd.via = "none"
        /\ snd.to = "none"

\* C11 witness: neutral 11 (no case of the switch) was rejected while the
\* child was running, on a handle with a process descriptor
UnknownSignalIsRejectedWitness ==
    /\ snd.pc = "done" /\ snd.impl = "pal_process" /\ snd.managed_signal = 11
    /\ snd.pidfd >= 0
    /\ snd.errno = "EINVAL" /\ snd.via = "none"
    /\ proc.state = "running"

AsyncArgs == {0, 1, 2}

PipeErrnos == {"EMFILE", "ENFILE"}

FcntlErrnos == {"EBADF", "EINVAL"}

\* what close may leave in errno
CloseErrnos == {"unchanged", "EIO"}

PipeInit ==
    /\ build \in Builds
    /\ RaceIdle
    /\ SigIdle
    /\ MonIdle
    /\ SpawnIdle
    /\ \E ar \in AsyncArgs, aw \in AsyncArgs :
           pp = [IdlePipeCall EXCEPT !.pc = "create", !.async_read = ar, !.async_write = aw]

\* a cleanup that returns with whatever errno the close calls left
errno_after_cleanup_unsaved(saved_errno, close_errno) ==
    IF close_errno = "unchanged" THEN saved_errno ELSE close_errno

\* pal_process.c:66-72, 88-93, 100-105: int saved_errno = errno; close; close;
\* errno = saved_errno
errno_after_cleanup(saved_errno, close_errno) == saved_errno

\* the failure branch of create_cloexec_pipe / create_pipe after the pipe
\* exists: both ends closed, -1
PipeCleanup(failing, e) ==
    \E ce \in CloseErrnos :
        pp' = [pp EXCEPT !.pc = "done", !.ret = -1, !.rd = NoEnd, !.wr = NoEnd,
                         !.failed_call = failing, !.call_errno = e,
                         !.errno = errno_after_cleanup(e, ce)]

\* pal_process.c:53-75  create_cloexec_pipe, and create_pipe's return on its
\* failure (81-83)
CreateCloexecPipe ==
    /\ pp.pc = "create"
    /\ LET made == [open |-> TRUE, cloexec |-> TRUE, nonblock |-> FALSE]
       IN  \/ \E e \in PipeErrnos :        \* pipe2 / pipe fails: nothing was opened
                pp' = [pp EXCEPT !.pc = "done", !.ret = -1, !.failed_call = "pipe",
                                 !.call_errno = e, !.errno = e]
           \/ /\ ~build.HAVE_PIPE2         \* one of the two fcntl(F_SETFD) fails
              /\ \E e \in FcntlErrnos : PipeCleanup("F_SETFD", e)
           \/ pp' = [pp EXCEPT !.pc = "nonblock_read", !.rd = made, !.wr = made]
    /\ UNCHANGED <<build, race, sigVars, monVars, spawnVars>>

\* pal_process.c:85-94
NonblockRead ==
    /\ pp.pc = "nonblock_read"
    /\ IF pp.async_read # 0
       THEN \/ \E e \in FcntlErrnos : PipeCleanup("F_GETFL", e)
            \/ \E e \in FcntlErrnos : PipeCleanup("F_SETFL", e)
            \/ pp' = [pp EXCEPT !.pc = "nonblock_write", !.rd.nonblock = TRUE]
       ELSE pp' = [pp EXCEPT !.pc = "nonblock_write"]
    /\ UNCHANGED <<build, race, sigVars, monVars, spawnVars>>

\* pal_process.c:97-110
NonblockWrite ==
    /\ pp.pc = "nonblock_write"
    /\ IF pp.async_write # 0
       THEN \/ \E e \in FcntlErrnos : PipeCleanup("F_GETFL", e)
            \/ \E e \in FcntlErrnos : PipeCleanup("F_SETFL", e)
            \/ pp' = [pp EXCEPT !.pc = "done", !.ret = 0, !.wr.nonblock = TRUE]
       ELSE pp' = [pp EXCEPT !.pc = "done", !.ret = 0]
    /\ UNCHANGED <<build, race, sigVars, monVars, spawnVars>>

PipeNext == CreateCloexecPipe \/ NonblockRead \/ NonblockWrite

SpecPipe == PipeInit /\ [][PipeNext]_vars

\* C18: create_pipe either returns 0 with both ends open and close-on-exec,
\* the read end non-blocking iff async_read and the write end non-blocking
\* iff async_write, or returns -1 with neither end open and errno equal to
\* the error of the call that failed.
PipeAllOrNothing ==
    pp.pc = "done" =>
        \/ /\ pp.ret = 0
           /\ pp.rd.open /\ pp.wr.open /\ pp.rd.cloexec /\ pp.wr.cloexec
           /\ pp.rd.nonblock <=> (pp.async_read # 0)
           /\ pp.wr.nonblock <=> (pp.async_write # 0)
        \/ /\ pp.ret = 0 - 1
           /\ ~pp.rd.open /\ ~pp.wr.open
           /\ pp.errno = pp.call_errno /\ pp.errno # "none"

\* C18 witness: the read end was made non-blocking, then fcntl(F_SETFL) on
\* the write end failed: both ends closed, errno of that fcntl
PipeAllOrNothingWitness ==
    /\ pp.pc = "done" /\ pp.ret = 0 - 1
    /\ pp.async_read # 0 /\ pp.async_write # 0
    /\ pp.failed_call = "F_SETFL" /\ pp.errno = "EINVAL"
    /\ ~pp.rd.open /\ ~pp.wr.open

(***************************************************************************)
(* SpecRace: two threads of one launching process call spawn_process at    *)
(* the same time (launches "A" and "B").  The threads share the launcher's *)
(* descriptor table; fork gives the child a copy of the table as it is at  *)
(* that instant.  The launcher has 0, 1 and 2 open, passes them on, and    *)
(* every call succeeds; the steps are those of SpecSpawn that touch        *)
(* descriptors, with create_cloexec_pipe (pal_process.c:53-75) taken apart *)
(* into its system calls.  The open files of launch l are l.WR, l.WW (error*)
(* pipe) and l.ER, l.EW (exit pipe).  The pidfd of clone3 is close-on-exec *)
(* from its creation and is an end of neither pipe; it is left out.        *)
(***************************************************************************)
RaceFile(l, end) ==
    CASE l = "A" /\ end = "WR" -> "A.WR" [] l = "A" /\ end = "WW" -> "A.WW"
      [] l = "A" /\ end = "ER" -> "A.ER" [] l = "A" /\ end = "EW" -> "A.EW"
      [] l = "B" /\ end = "WR" -> "B.WR" [] l = "B" /\ end = "WW" -> "B.WW"
      [] l = "B" /\ end = "ER" -> "B.ER" [] OTHER -> "B.EW"

\* some descriptor of table t refers to open file o
HoldsIn(t, o) == \E f \in FdRange : t[f].obj = o

RaceInit ==
    /\ build \in Builds
    /\ PipeIdle
    /\ SigIdle
    /\ MonIdle
    /\ SpawnIdle
    /\ \E cs \in [Launches -> BOOLEAN] :
         /\ \A l \in Launches : cs[l] => build.HAVE_SYS_TGKILL
         /\ race = [tbl |-> LauncherTable({0, 1, 2}, FALSE),
                    th |-> [l \in Launches |->
                              [IdleThread EXCEPT
                                 !.pc = IF build.HAVE_POSIX_SPAWN THEN "pipe_exit"
                                        ELSE "pipe_wait",
                                 !.create_suspended = cs[l]]],
                    ch |-> [l \in Launches |-> NoRaceChild]]

\* the thread of launch l goes on to pc (with the launcher's table t)
RaceStep(l, pc, t) == [race EXCEPT !.th[l].pc = pc, !.tbl = t]

\* pal_process.c:55, 59: pipe2(pipefd, O_CLOEXEC), or pipe(pipefd), which
\* leaves both descriptors without FD_CLOEXEC
RacePipe(l) ==
    /\ race.th[l].pc \in {"pipe_wait", "pipe_exit"}
    /\ LET which == IF race.th[l].pc = "pipe_wait" THEN "W" ELSE "E"
           r == LowestFree(race.tbl)
           t1 == [race.tbl EXCEPT
                    ![r] = OpenFd(RaceFile(l, IF which = "W" THEN "WR" ELSE "ER"),
                                  build.HAVE_PIPE2)]
           w == LowestFree(t1)
           t2 == [t1 EXCEPT
                    ![w] = OpenFd(RaceFile(l, IF which = "W" THEN "WW" ELSE "EW"),
                                  build.HAVE_PIPE2)]
           next == CASE ~build.HAVE_PIPE2 ->
                            IF which = "W" THEN "cloexec_wait_r" ELSE "cloexec_exit_r"
                     [] which = "W" -> "pipe_exit"
                     [] OTHER -> IF build.HAVE_POSIX_SPAWN THEN "posix_spawn" ELSE "fork"
       IN  race' = IF which = "W"
                   THEN [RaceStep(l, next, t2) EXCEPT !.th[l].wait_pipe = <<r, w>>]
                   ELSE [RaceStep(l, next, t2) EXCEPT !.th[l].exit_pipe = <<r, w>>]
    /\ UNCHANGED <<build, pp, sigVars, monVars, spawnVars>>

\* pal_process.c:64-65: fcntl(pipefd[0], F_SETFD, FD_CLOEXEC), then the same
\* on pipefd[1]
RaceSetCloexec(l) ==
    /\ race.th[l].pc \in {"cloexec_wait_r", "cloexec_wait_w",
                          "cloexec_exit_r", "cloexec_exit_w"}
    /\ LET pc == race.th[l].pc
           fd == CASE pc = "cloexec_wait_r" -> race.th[l].wait_pipe[1]
                   [] pc = "cloexec_wait_w" -> race.th[l].wait_pipe[2]
                   [] pc = "cloexec_exit_r" -> race.th[l].exit_pipe[1]
                   [] OTHER -> race.th[l].exit_pipe[2]
           next == CASE pc = "cloexec_wait_r" -> "cloexec_wait_w"
                     [] pc = "cloexec_wait_w" -> "pipe_exit"
                     [] pc = "cloexec_exit_r" -> "cloexec_exit_w"
                     [] OTHER -> IF build.HAVE_POSIX_SPAWN THEN "posix_spawn" ELSE "fork"
       IN  race' = RaceStep(l, next, [race.tbl EXCEPT ![fd].cloexec = TRUE])
    /\ UNCHANGED <<build, pp, sigVars, monVars, spawnVars>>

\* pal_process.c:397-441: clone3 / fork / vfork: the child starts with a copy
\* of the launcher's table; the vfork caller is held until its child execs
RaceFork(l) ==
    /\ race.th[l].pc = "fork"
    /\ race' = [race EXCEPT
                  !.th[l].pc = IF race.th[l].create_suspended THEN "close_write"
                               ELSE "vfork",
                  !.ch[l] = [state |-> "bootstrap", tbl |-> race.tbl]]
    /\ UNCHANGED <<build, pp, sigVars, monVars, spawnVars>>

RaceVforkReturns(l) ==
    /\ race.th[l].pc = "vfork"
    /\ race.ch[l].state \in {"program", "exited"}
    /\ race' = [race EXCEPT !.th[l].pc = "close_write"]
    /\ UNCHANGED <<build, pp, sigVars, monVars, spawnVars>>

\* pal_process.c:604-608: close(wait_pipe[1]); close(exit_pipe[1])
RaceParentClose(l) ==
    /\ race.th[l].pc = "close_write"
    /\ race' = RaceStep(l, "read", Close(Close(race.tbl, race.th[l].wait_pipe[2]),
                                         race.th[l].exit_pipe[2]))
    /\ UNCHANGED <<build, pp, sigVars, monVars, spawnVars>>

\* pal_process.c:611-613: read(wait_pipe[0]) returns 0 once no process holds
\* the write end of the error pipe; close(wait_pipe[0])
RaceParentRead(l) ==
    /\ race.th[l].pc = "read"
    /\ ~HoldsIn(race.tbl, RaceFile(l, "WW"))
    /\ \A m \in Launches : ~HoldsIn(race.ch[m].tbl, RaceFile(l, "WW"))
    /\ race' = RaceStep(l, IF race.th[l].create_suspended THEN "wait_stop" ELSE "done",
                        Close(race.tbl, race.th[l].wait_pipe[1]))
    /\ UNCHANGED <<build, pp, sigVars, monVars, spawnVars>>

\* pal_process.c:631-661: waitpid(child_pid, WUNTRACED) sees the stop
RaceParentWaitStop(l) ==
    /\ race.th[l].pc = "wait_stop"
    /\ race.ch[l].state = "stopped"
    /\ race' = [race EXCEPT !.th[l].pc = "done"]
    /\ UNCHANGED <<build, pp, sigVars, monVars, spawnVars>>

\* pal_process.c:253-332: posix_spawn with the file actions (0, 1, 2 onto
\* themselves, exit pipe onto 3) and POSIX_SPAWN_CLOEXEC_DEFAULT: the program
\* starts with descriptors 0..3 only; close(exit_pipe[1])
RacePosixSpawn(l) ==
    /\ race.th[l].pc = "posix_spawn"
    /\ LET c == SpawnDup2(race.tbl, race.th[l].exit_pipe[2], 3)
       IN  race' = [RaceStep(l, "done", Close(race.tbl, race.th[l].exit_pipe[2])) EXCEPT
                      !.ch[l] = [state |-> "program",
                                 tbl |-> [f \in FdRange |->
                                            IF f \in 0 .. 3 THEN c[f] ELSE ClosedFd]]]
    /\ UNCHANGED <<build, pp, sigVars, monVars, spawnVars>>

\* pal_process.c:504-571: the descriptor steps of the bootstrap, done on the
\* child's own table: close(wait_pipe[0]); dup2(exit_pipe[1], 3); close of
\* both exit_pipe numbers; close_range(4, ~0U, CLOSE_RANGE_CLOEXEC); with
\* create_suspended close(wait_pipe[1]) and the stop
RaceChildBootstrap(l) ==
    /\ race.ch[l].state = "bootstrap"
    /\ LET th == race.th[l]
           t1 == Close(race.ch[l].tbl, th.wait_pipe[1])
           t2 == Close(Close(Dup2(t1, th.exit_pipe[2], 3), th.exit_pipe[1]),
                       th.exit_pipe[2])
           t3 == IF build.HAVE_CLOSE_RANGE
                 THEN [f \in FdRange |->
                         IF f >= 4 /\ IsOpen(t2, f) THEN OpenFd(t2[f].obj, TRUE) ELSE t2[f]]
                 ELSE t2
       IN  race' = [race EXCEPT
                      !.ch[l] = IF th.create_suspended
                                THEN [state |-> "stopped",
                                      tbl |-> Close(t3, th.wait_pipe[2])]
                                ELSE [state |-> "execve", tbl |-> t3]]
    /\ UNCHANGED <<build, pp, sigVars, monVars, spawnVars>>

\* the caller resumes the suspended child after spawn_process returned
RaceChildResumed(l) ==
    /\ race.ch[l].state = "stopped"
    /\ race.th[l].pc = "done"
    /\ race' = [race EXCEPT !.ch[l].state = "execve"]
    /\ UNCHANGED <<build, pp, sigVars, monVars, spawnVars>>

\* pal_process.c:585: execve closes the close-on-exec descriptors
RaceChildExecve(l) ==
    /\ race.ch[l].state = "execve"
    /\ race' = [race EXCEPT
                  !.ch[l] = [state |-> "program",
                             tbl |-> [f \in FdRange |->
                                        IF @.tbl[f].cloexec THEN ClosedFd ELSE @.tbl[f]]]]
    /\ UNCHANGED <<build, pp, sigVars, monVars, spawnVars>>

\* the program ends: every descriptor it held is closed
RaceProgramExit(l) ==
    /\ race.ch[l].state = "program"
    /\ race' = [race EXCEPT !.ch[l] = [NoRaceChild EXCEPT !.state = "exited"]]
    /\ UNCHANGED <<build, pp, sigVars, monVars, spawnVars>>

RaceNext ==
    \E l \in Launches :
        \/ RacePipe(l) \/ RaceSetCloexec(l) \/ RaceFork(l) \/ RaceVforkReturns(l)
        \/ RaceParentClose(l) \/ RaceParentRead(l) \/ RaceParentWaitStop(l)
        \/ RacePosixSpawn(l)
        \/ RaceChildBootstrap(l) \/ RaceChildResumed(l) \/ RaceChildExecve(l)
        \/ RaceProgramExit(l)

SpecRace == RaceInit /\ [][RaceNext]_vars

(***************************************************************************)
(* Claims about concurrent launches (SpecRace).                            *)
(***************************************************************************)

\* C27 as stated: with two concurrent spawn_process calls, the program of
\* one launch never holds, after its execve, a descriptor of the error pipe
\* or the exit pipe of the other launch, under every interleaving, with
\* pipe2 and with pipe + fcntl.
NoForeignPipeAfterExec ==
    \A l \in Launches, m \in Launches :
        (l # m /\ race.ch[l].state = "program") =>
            \A end \in {"WR", "WW", "ER", "EW"} :
                ~HoldsIn(race.ch[l].tbl, RaceFile(m, end))

\* C28 as stated: once spawn_process has returned for launch l, the
\* launching process holds no write end of l's exit pipe and no other child
\* holds one (also a child of the other launch that is still stopped before
\* its exec), and the child of l holds it until it exits: the read end
\* reaches EOF when the process exits and not before.
ExitPipeEOFAtExit ==
    \A l \in Launches :
        race.th[l].pc = "done" =>
            /\ ~HoldsIn(race.tbl, RaceFile(l, "EW"))
            /\ \A m \in Launches \ {l} : ~HoldsIn(race.ch[m].tbl, RaceFile(l, "EW"))
            /\ race.ch[l].state # "exited" => HoldsIn(race.ch[l].tbl, RaceFile(l, "EW"))

=============================================================================
